---- MODULE Spec2Model ----
(***************************************************************************)
(* Model of the SupervIA AI service: the ops-assistant chat handler        *)
(* (src/controllers/ops-assistant.controller.js), the OpenAI service it    *)
(* calls (src/services/openai.service.js), the tool table                  *)
(* (src/services/tool.service.js), the in-memory response cache            *)
(* (src/config/redis.js) and its administration                            *)
(* (src/controllers/cache.controller.js).                                  *)
(*                                                                         *)
(* The specifications share the state: Spec is the chat handler,           *)
(* ServiceSpec is callOpenAI called with string prompts and message lists  *)
(* while time passes, AdminSpec is the administration of the cache,        *)
(* FallbackSpec is callOpenAI with agent types of every kind, ChatRouteSpec *)
(* and CacheRouteSpec are the chat handler and the administration behind   *)
(* the middlewares of their routes, RaceSpec is two calls of callOpenAI    *)
(* with the same key, HealthSpec is the detailed health check              *)
(* (src/controllers/health.controller.js) and DashboardSpec is             *)
(* generateDashboard (src/controllers/dashboard.controller.js).            *)
(*                                                                         *)
(* Granularity.  The service runs on one Node.js event loop.  A handler    *)
(* runs without interruption until it awaits something that is settled by  *)
(* the network (the OpenAI request, the HTTP requests of the tools); the   *)
(* awaits on the in-memory cache are settled in the same tick.  One action *)
(* of the model is therefore one such uninterrupted stretch of a handler.  *)
(*                                                                         *)
(* Strings.  A JSON text is the pair <<"json", v>> of the value it         *)
(* denotes, a text that is not JSON is <<"malformed">>, an agent type is   *)
(* the sequence of its parts (<<"chat", "-", "alice">> is "chat-alice").   *)
(***************************************************************************)
EXTENDS Integers, Sequences, FiniteSets, TLC

VARIABLES
  chatSessions,   \* the Map of sessions: session id -> history (sequence of messages)
  memoryCache,    \* the Map behind redisClient: cache key -> stored JSON text
  useCache,       \* OpenAIService.useCache (USE_CACHE !== 'false')
  turn,           \* per request slot: the locals of the chat handler running there
  owners,         \* session id -> for each message of the history, the request that pushed it
  nextReq,        \* number of chat requests received so far, plus one
  uuids,          \* number of session ids generated by uuidv4() so far
  openaiCalls,    \* per call slot: the locals of a callOpenAI made by another handler
  nextCall,       \* number of such calls made so far, plus one
  now,            \* the clock, in seconds
  stamps,         \* cache key -> when, for how long and for which input the entry was stored
  admin,          \* what the latest cache administration request did
  development,    \* process.env.NODE_ENV === 'development'
  gateway,        \* what the middlewares of the routes did with the latest request
  health,         \* the latest detailed health check: where it is and its answer
  dashboard       \* the latest generateDashboard request: where it is and its answer

chatVars == <<chatSessions, turn, owners, nextReq, uuids>>
serviceVars == <<openaiCalls, nextCall, now, stamps, admin>>
routeVars == <<development, gateway, health, dashboard>>
handlerVars == <<chatSessions, memoryCache, useCache, turn, owners, nextReq, uuids,
                 openaiCalls, nextCall, now, stamps, admin>>
vars == <<chatSessions, memoryCache, useCache, turn, owners, nextReq, uuids,
          openaiCalls, nextCall, now, stamps, admin, development, gateway, health,
          dashboard>>

(***************************************************************************)
(* Bounds of the model.                                                    *)
(***************************************************************************)
MaxRequests == 2
MaxCalls == 3
MaxClock == 60

Slots == {"t1", "t2"}
SuppliedIds == {"s1", ""}
UserMessages == {"m1"}
NoUser == "<no-user>"
Principals == {"alice", NoUser}
NoSession == "<no-session>"
Null == "<null>"
Texts == {"a1"}
CallSlots == {"c1", "c2"}
TickSeconds == 60

(***************************************************************************)
(* Program constants.                                                      *)
(***************************************************************************)
maxToolCalls == 5
DefaultTTL == 3600

ApologyText == "J'ai rencontre des difficultes techniques pour repondre a votre demande. Pourriez-vous la reformuler ? "
ChatFallbackText == "Je suis desole, mais je rencontre des difficultes techniques pour traiter votre demande."
DashboardFallbackText == "{dashboard: Dashboard par defaut}"
OpsFallbackText == "Je rencontre actuellement des difficultes techniques."
QuickStatusFallbackText == "Statut systeme: Indisponible."
PerfFallbackText == "Analyse de performance indisponible."

(***************************************************************************)
(* JSON.stringify / JSON.parse.                                            *)
(***************************************************************************)
JsonStringify(v) == <<"json", v>>
IsJsonText(s) == s[1] = "json"
JsonParse(s) == s[2]

(***************************************************************************)
(* tool.service.js: the tools the assistant may call.                      *)
(***************************************************************************)
availableTools ==
  {"prometheusQuery", "prometheusRangeQuery", "getServiceHealth",
   "getActiveAlerts", "generateDashboard", "analyzePerformance", "diagnoseIssue"}

\* Argument payloads: an object, or JSON null (which the executors'
\* parameter destructuring rejects with a TypeError).
ArgsObject == "args-object"
ArgsNull == "args-null"

ToolCall(id, name, arguments) ==
  [id |-> id, type |-> "function",
   function |-> [name |-> name, arguments |-> arguments]]

tcHealth == ToolCall("call_2", "getServiceHealth", JsonStringify(ArgsObject))
tcUnknown == ToolCall("call_3", "restartService", JsonStringify(ArgsObject))
tcBadJson == ToolCall("call_4", "getActiveAlerts", <<"malformed">>)
tcNullArgs == ToolCall("call_5", "prometheusQuery", JsonStringify(ArgsNull))

\* The invocation lists a reasoning-engine answer may carry.
ToolCallLists == { <<tcNullArgs, tcHealth>>, <<tcUnknown, tcBadJson>> }

\* What the back-end of a tool does once the executor has sent its request.
ToolOutcomes == {"ok", "backendError"}

\* The executors catch the failures of their back-end and return a text.
ExecutorOutput(name, outcome) ==
  IF outcome = "ok" THEN "result of " \o name ELSE "Error executing " \o name

(***************************************************************************)
(* ops-assistant.controller.js: messages and prompt.                       *)
(***************************************************************************)
systemPrompt == [role |-> "system", content |-> "You are SupervIA"]

\* A prompt that carries the latest message only.
buildChatPromptLatest(history) == <<systemPrompt, history[Len(history)]>>

\* buildChatPrompt: [systemPrompt, ...history]
buildChatPrompt(history) == <<systemPrompt>> \o history

\* A push that keeps a window of the two latest elements.
PushWindow(array, item) ==
  IF Len(array) < 2 THEN Append(array, item) ELSE <<array[Len(array)], item>>

\* Array.prototype.push
Push(array, item) == Append(array, item)

UserMessage(message) == [role |-> "user", content |-> message]
AssistantRequest(tool_calls) == [role |-> "assistant", tool_calls |-> tool_calls]
AssistantMessage(content) == [role |-> "assistant", content |-> content]
ToolMessage(toolCall, content) ==
  [tool_call_id |-> toolCall.id, role |-> "tool",
   name |-> toolCall.function.name, content |-> content]

\* req.user?.id || 'anonymous-dev'
UserIdOf(principal) == IF principal = NoUser THEN "anonymous-dev" ELSE principal

\* An agent type that is the same for every user.
ChatAgentTypeShared(userId) == <<"chat", "-", "anonymous-dev">>

\* `chat-${userId}`
ChatAgentType(userId) == <<"chat", "-", userId>>

\* JavaScript truthiness of a content: null and the empty string are falsy.
FalsyNever(content) == FALSE

\* !content
Falsy(content) == content = Null \/ content = ""

(***************************************************************************)
(* config/redis.js: the response cache.                                    *)
(***************************************************************************)
Md5(text) == <<"md5", text>>

\* A key without the prefix of the subsystem.
generateCacheKeyBare(promptStr, agentType) == <<"cache", agentType, Md5(promptStr)>>

\* aiCache.generateCacheKey: `ai:${agentType}:${hash}`
generateCacheKey(promptStr, agentType) == <<"ai", agentType, Md5(promptStr)>>

\* A store that forgets what it is given.
setExForgetting(cache, key, ttl, value) == cache

\* redisClient.setEx: the time to live is dropped, the entry is stored.
setEx(cache, key, ttl, value) ==
  [k \in DOMAIN cache \cup {key} |-> IF k = key THEN value ELSE cache[k]]

\* aiCache.get: the parsed entry, or null.
HasEntry(cache, key) == key \in DOMAIN cache
aiCacheGet(cache, key) == JsonParse(cache[key])

\* A set that keeps the entry the key already has.
aiCacheSetIfAbsent(cache, key, data, ttlSeconds) ==
  IF key \in DOMAIN cache THEN cache ELSE setEx(cache, key, ttlSeconds, JsonStringify(data))

\* aiCache.set
aiCacheSet(cache, key, data, ttlSeconds) ==
  setEx(cache, key, ttlSeconds, JsonStringify(data))

(***************************************************************************)
(* openai.service.js                                                       *)
(***************************************************************************)
\* The key callOpenAI derives for a list of messages.
CacheKeyOf(prompt, agentType) == generateCacheKey(JsonStringify(prompt), agentType)

\* The result callOpenAI builds from the first choice of a completion.
BuildResult(message, agentType) ==
  [content |-> message.content,
   choices |-> <<[message |-> message]>>,
   agentType |-> agentType]

\* getFallbackResponse: the table, then the lookup by inclusion.
FallbackKeys == {<<"dashboard">>, <<"opsAssistant">>, <<"chat">>,
                 <<"quick-status">>, <<"performance-insights">>}
fallbacks(key) ==
  [content |-> CASE key = <<"dashboard">> -> DashboardFallbackText
                 [] key = <<"opsAssistant">> -> OpsFallbackText
                 [] key = <<"chat">> -> ChatFallbackText
                 [] key = <<"quick-status">> -> QuickStatusFallbackText
                 [] OTHER -> PerfFallbackText,
   fallback |-> TRUE]

Includes(agentType, part) == \E i \in DOMAIN agentType : agentType[i] = part

getFallbackResponseExact(agentType) ==
  IF agentType \in FallbackKeys THEN fallbacks(agentType)
  ELSE fallbacks(<<"opsAssistant">>)

\* fallbacks[agentType] looks the name up in an object literal: besides its
\* own five entries the object has the members of Object.prototype, which
\* are functions or objects with neither `content` nor `fallback`.
InheritedNames == {<<"constructor">>, <<"toString">>, <<"valueOf">>, <<"__proto__">>}
ObjectMember(name) == [inherited |-> name]

getFallbackResponse(agentType) ==
  IF agentType \in FallbackKeys THEN fallbacks(agentType)
  ELSE IF agentType \in InheritedNames THEN ObjectMember(agentType)
  ELSE IF Includes(agentType, "chat") THEN fallbacks(<<"chat">>)
  ELSE IF Includes(agentType, "dashboard") THEN fallbacks(<<"dashboard">>)
  ELSE fallbacks(<<"opsAssistant">>)

\* The error codes for which callOpenAI throws instead of falling back.
ThrownCodes == {"rate_limit_exceeded", "insufficient_quota", "invalid_request_error"}
\* The codes of the failures of the reasoning engine; "ECONNREFUSED" stands
\* for the network failures and time-outs.
ErrorCodes == ThrownCodes \cup {"ECONNREFUSED"}

ThrowsOnInvalidRequest(code) == code = "invalid_request_error"

ThrowsOn(code) == code \in ThrownCodes

(***************************************************************************)
(* ops-assistant.controller.js: OpsAssistantController.chat                *)
(***************************************************************************)
NoResponse == [content |-> Null]
NoReply == [kind |-> "none"]

IdleTurn ==
  [pc |-> "idle", reqId |-> 0, sessionId |-> NoSession, userId |-> "",
   message |-> "", script |-> 0, executionCount |-> 0,
   responseMessage |-> NoResponse, toolCalls |-> <<>>, prompt |-> <<>>,
   cacheKey |-> <<>>, engineCalls |-> 0, cacheHits |-> 0, failure |-> "",
   response |-> NoReply]

\* The mark a message gets in `owners`: the request that pushed it and the
\* session that request was addressed to.
Owner(loc) == [req |-> loc.reqId, sessionId |-> loc.sessionId]

\* responseMessage.tool_calls: the property of that name of the object
\* callOpenAI returned (undefined when the object has no such property).
tool_calls(responseMessage) ==
  IF "tool_calls" \in DOMAIN responseMessage THEN responseMessage.tool_calls ELSE <<>>

\* !!responseMessage.cached
cached(responseMessage) ==
  IF "cached" \in DOMAIN responseMessage THEN responseMessage.cached ELSE FALSE

\* The invocations the engine's message asks for, and a loop that trusts the
\* engine to stop asking.
LoopConditionUnbounded(responseMessage, executionCount) ==
  /\ "choices" \in DOMAIN responseMessage
  /\ "tool_calls" \in DOMAIN responseMessage.choices[1].message

\* The condition of the while loop.
LoopCondition(responseMessage, executionCount) ==
  /\ Len(tool_calls(responseMessage)) > 0
  /\ executionCount < maxToolCalls

\* The test that replaces the final content by the apology.
BoundReached(executionCount) == executionCount >= maxToolCalls

\* One element of toolPromises settles without a request to a back-end when
\* the tool is unknown, its arguments are not JSON, or the executor rejects
\* them while unpacking its parameter.
SettlesAtOnce(toolCall) ==
  \/ toolCall.function.name \notin availableTools
  \/ ~IsJsonText(toolCall.function.arguments)
  \/ JsonParse(toolCall.function.arguments) = ArgsNull

\* The tool message one element of toolPromises resolves to.
ToolOutput(toolCall, outcome) ==
  IF toolCall.function.name \notin availableTools
    THEN ToolMessage(toolCall, "Erreur: outil " \o toolCall.function.name \o " non trouve")
  ELSE IF ~IsJsonText(toolCall.function.arguments)
    THEN ToolMessage(toolCall, "Erreur: Unexpected token in JSON")
  ELSE IF JsonParse(toolCall.function.arguments) = ArgsNull
    THEN ToolMessage(toolCall, "Erreur: Cannot destructure property of null")
  ELSE ToolMessage(toolCall, ExecutorOutput(toolCall.function.name, outcome))

\* toolOutputs: Promise.all keeps the order of the invocations.
ToolOutputs(toolCalls, outcomes) ==
  [i \in 1..Len(toolCalls) |-> ToolOutput(toolCalls[i], outcomes[i])]

Repeat(x, n) == [i \in 1..n |-> x]

\* The locals of a handler that has returned: nothing is awaited any more.
Returned(loc, responseMessage, response) ==
  [loc EXCEPT !.pc = "done", !.responseMessage = responseMessage,
              !.response = response, !.toolCalls = <<>>, !.prompt = <<>>,
              !.cacheKey = <<>>]

\* A count that includes the round that was not performed.
toolsUsedCountNext(executionCount) == executionCount + 1

\* metadata.toolsUsedCount
toolsUsedCount(executionCount) == executionCount

\* The end of the handler: the apology when the bound was reached, the
\* error when the content is empty, else the final push and the response.
Finish(hist, own, loc) ==
  LET content == IF BoundReached(loc.executionCount) THEN ApologyText
                 ELSE loc.responseMessage.content
      final == [loc.responseMessage EXCEPT !.content = content]
  IN IF Falsy(content)
       THEN [hist |-> hist, own |-> own,
             loc |-> Returned(loc, final,
                              [kind |-> "error", success |-> FALSE,
                               error |-> "Reponse OpenAI invalide"])]
       ELSE LET hist1 == Push(hist, AssistantMessage(content))
            IN [hist |-> hist1, own |-> Push(own, Owner(loc)),
                loc |-> Returned(loc, final,
                             [kind |-> "success", success |-> TRUE,
                              sessionId |-> loc.sessionId,
                              message |-> [role |-> "assistant", content |-> content],
                              metadata |->
                                [messageCount |-> (Len(hist1) + 1) \div 2,
                                 cached |-> cached(final),
                                 toolsUsedCount |-> toolsUsedCount(loc.executionCount)]])]

RECURSIVE ChatLoop(_, _, _, _, _), AfterTools(_, _, _, _, _, _), CallOpenAI(_, _, _, _, _)

\* callOpenAI up to its first request to the network: the key, the cache
\* read, and on a miss the request to the reasoning engine.
CallOpenAI(hist, own, loc, cache, enabled) ==
  LET prompt == buildChatPrompt(hist)
      cacheKey == CacheKeyOf(prompt, ChatAgentType(loc.userId))
      called == [loc EXCEPT !.prompt = prompt, !.cacheKey = cacheKey]
  IN IF enabled /\ HasEntry(cache, cacheKey)
       THEN ChatLoop(hist, own,
                     [called EXCEPT !.responseMessage = aiCacheGet(cache, cacheKey),
                                    !.cacheHits = @ + 1],
                     cache, enabled)
       ELSE [hist |-> hist, own |-> own,
             loc |-> [called EXCEPT !.pc = "awaitEngine", !.engineCalls = @ + 1]]

\* The handler from the test of the while loop on, with responseMessage set.
ChatLoop(hist, own, loc, cache, enabled) ==
  IF LoopCondition(loc.responseMessage, loc.executionCount)
    THEN LET calls == tool_calls(loc.responseMessage)
             hist1 == Push(hist, AssistantRequest(calls))
             own1 == Push(own, Owner(loc))
             loc1 == [loc EXCEPT !.executionCount = @ + 1, !.toolCalls = calls]
         IN IF \A i \in 1..Len(calls) : SettlesAtOnce(calls[i])
              THEN AfterTools(hist1, own1, loc1, cache, enabled, Repeat("ok", Len(calls)))
              ELSE [hist |-> hist1, own |-> own1,
                    loc |-> [loc1 EXCEPT !.pc = "awaitTools"]]
    ELSE Finish(hist, own, loc)

\* The handler once Promise.all has settled: the outputs are pushed in the
\* order of the invocations and the engine is asked again.
AfterTools(hist, own, loc, cache, enabled, outcomes) ==
  LET outputs == ToolOutputs(loc.toolCalls, outcomes)
  IN CallOpenAI(hist \o outputs, own \o Repeat(Owner(loc), Len(outputs)),
                loc, cache, enabled)

\* A generator that gives the same id again.
uuidv4Fixed(n) == "uuid-1"

\* uuidv4(): an id no session has yet.
uuidv4(n) == "uuid-" \o ToString(n)

\* Map.set on a function.
MapSet(map, key, value) ==
  [k \in DOMAIN map \cup {key} |-> IF k = key THEN value ELSE map[k]]

(***************************************************************************)
(* The reasoning engine.  The engine serving a turn requests tools in its  *)
(* first `script` answers of the turn and gives a text in the next one;    *)
(* a script of maxToolCalls + 1 is an engine that requests tools in every  *)
(* answer the turn can ask for.  Any of its calls may also fail.           *)
(***************************************************************************)
Scripts == {0, maxToolCalls, maxToolCalls + 1}

EngineMessages(loc) ==
  IF loc.engineCalls <= loc.script
    THEN {[role |-> "assistant", content |-> Null, tool_calls |-> calls] :
            calls \in ToolCallLists}
    ELSE {[role |-> "assistant", content |-> text] : text \in Texts}

NoMessage == [role |-> "assistant", content |-> Null]

\* What may settle the await a turn is suspended on.
Events(loc) ==
  IF loc.pc = "awaitEngine"
    THEN {[type |-> "answer", message |-> m, code |-> "", outcomes |-> <<>>] :
            m \in EngineMessages(loc)}
         \cup {[type |-> "invalid", message |-> NoMessage, code |-> "", outcomes |-> <<>>]}
         \cup {[type |-> "error", message |-> NoMessage, code |-> c, outcomes |-> <<>>] :
                 c \in ErrorCodes}
    ELSE {[type |-> "tools", message |-> NoMessage, code |-> "", outcomes |-> o] :
            o \in [1..Len(loc.toolCalls) -> ToolOutcomes]}

\* The cache after callOpenAI has handled the event.
CacheAfter(loc, ev, cache, enabled) ==
  IF ev.type = "answer" /\ enabled
    THEN aiCacheSet(cache, loc.cacheKey,
                    BuildResult(ev.message, ChatAgentType(loc.userId)), DefaultTTL)
    ELSE cache

\* The handler from the settled await to its next suspension or its end.
OnEvent(hist, own, loc, ev, cache, enabled) ==
  LET agentType == ChatAgentType(loc.userId)
  IN CASE ev.type = "tools" ->
            AfterTools(hist, own, loc, cache, enabled, ev.outcomes)
       [] ev.type = "answer" ->
            ChatLoop(hist, own,
                     [loc EXCEPT !.responseMessage = BuildResult(ev.message, agentType)],
                     CacheAfter(loc, ev, cache, enabled), enabled)
       [] ev.type = "error" /\ ThrowsOn(ev.code) ->
            [hist |-> hist, own |-> own,
             loc |-> Returned([loc EXCEPT !.failure = ev.code], loc.responseMessage,
                              [kind |-> "error", success |-> FALSE,
                               error |-> ev.code])]
       [] OTHER ->
            ChatLoop(hist, own,
                     [loc EXCEPT !.responseMessage = getFallbackResponse(agentType),
                                 !.failure = IF ev.type = "error" THEN ev.code
                                             ELSE "invalid_response"],
                     cache, enabled)

(***************************************************************************)
(* openai.service.js: callOpenAI as the other handlers call it, with a     *)
(* string prompt or with a list of messages.  A prompt is the record of    *)
(* its JavaScript type and its value; the text of a string prompt is       *)
(* <<"text", t>>, or <<"json", v>> when the string is the JSON text of v.  *)
(***************************************************************************)
StringPrompt(text) == [type |-> "string", value |-> text]
ArrayPrompt(messages) == [type |-> "array", value |-> messages]
NoPrompt == [type |-> "none", value |-> <<>>]

PlainText == <<"text", "Test de connectivite - reponds juste OK">>
MessageList == <<systemPrompt, UserMessage("m1")>>

\* The prompts of the calls: a list of messages, the string that is the JSON
\* text of that list, and a string that is no JSON text.
Prompts ==
  {ArrayPrompt(MessageList), StringPrompt(JsonStringify(MessageList)),
   StringPrompt(PlainText)}

AgentTypes == {<<"opsAssistant">>, <<"dashboard">>}

\* options.cacheTTL || 3600; 0 stands for an option left out.
TTLOf(cacheTTL) == IF cacheTTL = 0 THEN DefaultTTL ELSE cacheTTL

\* The text callOpenAI hashes: the string prompt itself, or the JSON text of
\* the list of messages.
PromptString(prompt) ==
  IF prompt.type = "string" THEN prompt.value ELSE JsonStringify(prompt.value)

\* A derivation of the key that mixes the clock in.
KeyOfPromptTimed(prompt, agentType) ==
  generateCacheKey(<<"at", now, PromptString(prompt)>>, agentType)

\* The key callOpenAI derives for its prompt.
KeyOfPrompt(prompt, agentType) == generateCacheKey(PromptString(prompt), agentType)

\* What the store behind redisClient does during a call: it works, or its
\* read or its write is rejected.  (The in-memory store of redis.js itself
\* never rejects; a rejection is what a Redis client may answer.)
Faults == {"none", "read", "write"}

\* A cache read whose rejection reaches the caller.
CacheReadPropagating(cache, key, fault) ==
  IF fault = "read" THEN [kind |-> "throw", value |-> NoResponse]
  ELSE IF HasEntry(cache, key) THEN [kind |-> "hit", value |-> aiCacheGet(cache, key)]
  ELSE [kind |-> "miss", value |-> NoResponse]

\* The cache read of callOpenAI: aiCache.get answers null when the read is
\* rejected, and callOpenAI goes on to the engine unless it got an entry.
CacheRead(cache, key, fault) ==
  IF fault # "read" /\ HasEntry(cache, key)
    THEN [kind |-> "hit", value |-> aiCacheGet(cache, key)]
    ELSE [kind |-> "miss", value |-> NoResponse]

\* The cache write of callOpenAI: aiCache.set answers false when the write
\* is rejected, and the store keeps what it had.
CacheWrite(cache, key, data, ttlSeconds, fault) ==
  IF fault = "write" THEN cache ELSE aiCacheSet(cache, key, data, ttlSeconds)

\* What `stamps` keeps of a stored entry; a ttl of 0 marks "no entry".
NoStamp == [at |-> 0, ttl |-> 0, prompt |-> NoPrompt, agentType |-> <<>>,
            result |-> NoResponse]

IdleCall ==
  [pc |-> "idle", id |-> 0, prompt |-> NoPrompt, agentType |-> <<>>, ttl |-> 0,
   fault |-> "none", cacheKey |-> <<>>, startedAt |-> 0, entry |-> NoStamp,
   prior |-> FALSE,
   engineRequests |-> 0, answer |-> NoResponse,
   outcome |-> "none", result |-> NoResponse]

CallInput(prompt, agentType, cacheTTL, fault) ==
  [prompt |-> prompt, agentType |-> agentType, cacheTTL |-> cacheTTL, fault |-> fault]

\* The calls of the service specification: callOpenAI as any caller of the
\* service may call it (the prompt of the health check among them).
ServiceCalls ==
  {CallInput(ArrayPrompt(MessageList), <<"opsAssistant">>, 0, "none"),
   CallInput(StringPrompt(JsonStringify(MessageList)), <<"opsAssistant">>, 0, "none"),
   CallInput(StringPrompt(PlainText), <<"opsAssistant">>, 60, "none"),
   CallInput(StringPrompt(PlainText), <<"dashboard">>, 0, "none"),
   CallInput(ArrayPrompt(MessageList), <<"opsAssistant">>, 0, "read"),
   CallInput(ArrayPrompt(MessageList), <<"opsAssistant">>, 0, "write")}

\* The agent types of the fallback specification: the registered ones, types
\* that contain one of them, one that contains none, and one that is the
\* name of an inherited member.
FallbackAgentTypes ==
  {<<"chat">>, <<"dashboard">>, <<"quick-status">>,
   <<"chat", "-", "alice">>, <<"dashboard", "-", "alice">>,
   <<"metricExplanation">>, <<"constructor">>}

\* The calls of the fallback specification.
FallbackCalls ==
  {CallInput(StringPrompt(PlainText), a, 0, "none") : a \in FallbackAgentTypes}

\* The calls of the administration specification.
AdminCalls ==
  {CallInput(StringPrompt(PlainText), a, 0, "none") : a \in AgentTypes}
  \cup {CallInput(ArrayPrompt(MessageList), <<"opsAssistant">>, 0, "none")}

(***************************************************************************)
(* cache.controller.js and redis.js: the administration of the cache.  The *)
(* text of a key is the sequence of its parts, "#" standing for the hash:  *)
(* <<"ai", ":", "dashboard", ":", "#">> is "ai:dashboard:<hash>".          *)
(***************************************************************************)
KeyText(key) == <<key[1], ":">> \o key[2] \o <<":", "#">>

\* A test that every key passes.
StartsWithAnything(key) == TRUE

\* String.prototype.startsWith('ai:')
StartsWithAi(key) == KeyText(key)[1] = "ai" /\ KeyText(key)[2] = ":"

\* The places of a text where a part occurs.
Occurrences(text, part) ==
  {i \in 1..(Len(text) - Len(part) + 1) : SubSeq(text, i, i + Len(part) - 1) = part}

\* new RegExp(pattern.replace('*', '.*')).test(key): the first star of the
\* pattern matches anything, and the expression is searched, not anchored.
StarAt(pattern) ==
  IF \E i \in DOMAIN pattern : pattern[i] = "*"
    THEN CHOOSE i \in DOMAIN pattern :
           pattern[i] = "*" /\ \A j \in 1..(i - 1) : pattern[j] # "*"
    ELSE 0

RegexTest(pattern, text) ==
  IF StarAt(pattern) = 0 THEN Occurrences(text, pattern) # {}
  ELSE LET before == SubSeq(pattern, 1, StarAt(pattern) - 1)
           after == SubSeq(pattern, StarAt(pattern) + 1, Len(pattern))
       IN \E i \in Occurrences(text, before) :
            \E j \in Occurrences(text, after) : j >= i + Len(before)

\* redisClient.keys(pattern)
keys(cache, pattern) == {k \in DOMAIN cache : RegexTest(pattern, KeyText(k))}

\* A delete that empties the store.
delEverything(cache, removed) == <<>>

\* redisClient.del
del(cache, removed) == [k \in DOMAIN cache \ removed |-> cache[k]]

AiPattern == <<"ai", ":", "*">>
NoPattern == <<>>
\* The patterns of the list-keys requests: none, 'ai:*', '*', 'dashboard'.
Patterns == {NoPattern, AiPattern, <<"*">>, <<"dashboard">>}

\* A key of another subsystem, and a key of this one that no call derives.
ForeignKey == <<"session", <<"abc">>, Md5(PlainText)>>
AbsentKey == <<"ai", <<"templateSuggestion">>, Md5(PlainText)>>

\* key.includes(':dashboard:'), key.includes(':opsAssistant:')
IncludesType(key, type) == Occurrences(KeyText(key), <<":", type, ":">>) # {}

NoAdmin ==
  [op |-> "none", arg |-> <<>>, status |-> 0, listed |-> {}, removed |-> {},
   total |-> 0, dashboard |-> 0, opsAssistant |-> 0]

(***************************************************************************)
(* middlewares/auth.js and the routes.  A request carries no Authorization *)
(* header, a header of another scheme, or a Bearer token; jwt.verify       *)
(* answers for a token with an error or with the decoded payload.          *)
(***************************************************************************)
NoHeader == [scheme |-> "none", token |-> ""]
BasicHeader == [scheme |-> "Basic", token |-> "YWxpY2U6cHc="]
Bearer(token) == [scheme |-> "Bearer", token |-> token]

\* The tokens: one with a wrong signature, one that has expired, the token
\* of the user alice, the token of the administrator root, and a token of
\* root presented while the signing keys cannot be fetched.
Tokens == {"forged", "expired", "alice", "root", "root-nokeys"}

NoUserObject == [id |-> NoUser, roles |-> {}]

\* jwt.verify(token, getKey, options, callback): the arguments the callback
\* gets.
jwtVerify(token) ==
  CASE token = "alice" -> [err |-> "", decoded |-> [id |-> "alice", roles |-> {"user"}]]
    [] token = "root" -> [err |-> "", decoded |-> [id |-> "root", roles |-> {"admin"}]]
    [] token = "expired" -> [err |-> "TokenExpiredError", decoded |-> NoUserObject]
    [] OTHER -> [err |-> "JsonWebTokenError", decoded |-> NoUserObject]

\* What a middleware did: it answered with a status, or called next() (the
\* status is 0) with req.user as it then is.
Answered401(code) == [status |-> 401, code |-> code, user |-> NoUserObject]
Answered403 == [status |-> 403, code |-> "", user |-> NoUserObject]
CalledNext(user) == [status |-> 0, code |-> "", user |-> user]

authMiddleware(header) ==
  IF header.scheme # "Bearer" \/ header.token = ""
    THEN Answered401("MISSING_TOKEN")
  ELSE IF jwtVerify(header.token).err = "TokenExpiredError"
    THEN Answered401("TOKEN_EXPIRED")
  ELSE IF jwtVerify(header.token).err # ""
    THEN Answered401("INVALID_TOKEN")
  ELSE CalledNext(jwtVerify(header.token).decoded)

optionalAuth(header) ==
  IF header.scheme = "none" THEN CalledNext(NoUserObject) ELSE authMiddleware(header)

\* A selection that lets every request without header through.
authMiddlewareToUseOptional(dev) == "optionalAuth"

\* const authMiddlewareToUse = NODE_ENV === 'development' ? optionalAuth : authMiddleware
authMiddlewareToUse(dev) == IF dev THEN "optionalAuth" ELSE "authMiddleware"

ApplyAuth(name, header) ==
  IF name = "optionalAuth" THEN optionalAuth(header) ELSE authMiddleware(header)

\* A check that is satisfied with any verified principal.
requireRoleAny(requiredRoles, auth) == auth

\* requireRole(requiredRoles), after a middleware that called next()
requireRole(requiredRoles, auth) ==
  IF auth.user = NoUserObject THEN Answered401("")
  ELSE IF auth.user.roles \cap requiredRoles = {} THEN Answered403
  ELSE auth

\* const adminOnly = [authMiddleware, requireRole(['admin'])]
adminOnly(header) ==
  IF authMiddleware(header).status # 0 THEN authMiddleware(header)
  ELSE requireRole({"admin"}, authMiddleware(header))

\* The messages of the chat requests: the text stands for a message of
\* that many characters.
LongestMessage == "m2000"
TooLongMessage == "m2001"
RouteMessages == {"", "m1", LongestMessage, TooLongMessage}
Characters(message) ==
  CASE message = "" -> 0
    [] message = LongestMessage -> 2000
    [] message = TooLongMessage -> 2001
    [] OTHER -> 2

\* A validation that only refuses the empty message.
ValidMessageAnyLength(message) == message # ""

\* body('message').notEmpty().isLength({ min: 1, max: 2000 })
ValidMessage(message) ==
  /\ message # ""
  /\ Characters(message) >= 1 /\ Characters(message) <= 2000

\* No health check yet.
NoHealth ==
  [pc |-> "idle", thisArg |-> "", call |-> "", disk |-> "", outcome |-> "none",
   openai |-> "none", body |-> "", status |-> 0]

\* No generateDashboard request yet.
NoDashboard ==
  [pc |-> "idle", call |-> "", source |-> "none", content |-> <<>>,
   response |-> NoReply]

NoGateway ==
  [route |-> "none", header |-> NoHeader, input |-> "", status |-> 0,
   reached |-> FALSE]

\* The record of a request a middleware answered, and of one that reached
\* the handler of its route; the input is the one the validators looked at.
Refused(route, header, input, status) ==
  [route |-> route, header |-> header, input |-> input, status |-> status,
   reached |-> FALSE]
Passed(route, header, input) ==
  [route |-> route, header |-> header, input |-> input, status |-> 0,
   reached |-> TRUE]

(***************************************************************************)
(* Actions.                                                                *)
(***************************************************************************)
TypeOK ==
  /\ development \in BOOLEAN
  /\ gateway.status \in {0, 400, 401, 403}
  /\ gateway.reached \in BOOLEAN
  /\ health.status \in {0, 200, 503}
  /\ dashboard.pc \in {"idle", "awaiting", "done"}
  /\ DOMAIN openaiCalls = CallSlots
  /\ nextCall \in 1..(MaxCalls + 1)
  /\ now \in 0..MaxClock
  /\ DOMAIN stamps \subseteq DOMAIN memoryCache
  /\ useCache \in BOOLEAN
  /\ nextReq \in 1..(MaxRequests + 1)
  /\ uuids \in 0..MaxRequests
  /\ DOMAIN turn = Slots
  /\ DOMAIN owners = DOMAIN chatSessions
  /\ \A s \in DOMAIN chatSessions : Len(owners[s]) = Len(chatSessions[s])

\* The state after the modules are loaded, but for the environment.
Loaded ==
  /\ chatSessions = <<>>
  /\ owners = <<>>
  /\ memoryCache = <<>>
  /\ useCache \in BOOLEAN
  /\ turn = [t \in Slots |-> IdleTurn]
  /\ nextReq = 1
  /\ uuids = 0
  /\ openaiCalls = [c \in CallSlots |-> IdleCall]
  /\ nextCall = 1
  /\ now = 0
  /\ stamps = <<>>
  /\ admin = NoAdmin
  /\ gateway = NoGateway
  /\ health = NoHealth
  /\ dashboard = NoDashboard

\* The handlers, which do not read NODE_ENV, are followed in production.
Init == Loaded /\ development = FALSE

\* The routes are followed in both environments.
RouteInit == Loaded /\ development \in BOOLEAN

\* if (!chatSessions.has(id)) chatSessions.set(id, []); chatSessions.get(id)
GetOrCreateShared(sessions, id) ==
  IF id \in DOMAIN sessions THEN sessions[id]
  ELSE IF DOMAIN sessions # {} THEN sessions[CHOOSE k \in DOMAIN sessions : TRUE]
  ELSE <<>>

GetOrCreate(sessions, id) ==
  IF id \in DOMAIN sessions THEN sessions[id] ELSE <<>>

\* The handler activations are interchangeable: a request takes the first
\* slot that is free.
FreeSlot(t) ==
  /\ turn[t].pc \in {"idle", "done"}
  /\ t = "t1" \/ turn["t1"].pc \notin {"idle", "done"}

\* The test of `sessionId || uuidv4()`: a sessionId that is absent from the
\* body or is the empty string is falsy.
NoSessionId(sessionId) == sessionId = NoSession \/ sessionId = ""

\* A validated chat request arrives: the handler runs up to its first
\* request to the network (or to its end when the cache answers).
ChatRequest(t, sessionId, message, principal, script) ==
  /\ FreeSlot(t)
  /\ nextReq <= MaxRequests
  /\ LET currentSessionId == IF NoSessionId(sessionId) THEN uuidv4(uuids + 1) ELSE sessionId
         history == GetOrCreate(chatSessions, currentSessionId)
         own == GetOrCreate(owners, currentSessionId)
         loc == [IdleTurn EXCEPT !.pc = "running", !.reqId = nextReq,
                                 !.sessionId = currentSessionId,
                                 !.userId = UserIdOf(principal),
                                 !.message = message, !.script = script]
         r == CallOpenAI(Push(history, UserMessage(message)), Push(own, Owner(loc)),
                         loc, memoryCache, useCache)
     IN /\ chatSessions' = MapSet(chatSessions, currentSessionId, r.hist)
        /\ owners' = MapSet(owners, currentSessionId, r.own)
        /\ turn' = [turn EXCEPT ![t] = r.loc]
        /\ uuids' = IF NoSessionId(sessionId) THEN uuids + 1 ELSE uuids
  /\ nextReq' = nextReq + 1
  /\ UNCHANGED <<memoryCache, useCache>>
  /\ UNCHANGED serviceVars

\* The request a suspended turn waits for settles and the handler resumes.
Resume(t) ==
  /\ turn[t].pc \in {"awaitEngine", "awaitTools"}
  /\ \E ev \in Events(turn[t]) :
       LET loc == turn[t]
           sid == loc.sessionId
           cache == CacheAfter(loc, ev, memoryCache, useCache)
           r == OnEvent(chatSessions[sid], owners[sid], loc, ev, memoryCache, useCache)
       IN /\ chatSessions' = MapSet(chatSessions, sid, r.hist)
          /\ owners' = MapSet(owners, sid, r.own)
          /\ turn' = [turn EXCEPT ![t] = r.loc]
          /\ memoryCache' = cache
  /\ UNCHANGED <<useCache, nextReq, uuids>>
  /\ UNCHANGED serviceVars

Next ==
  \/ \E t \in Slots, sessionId \in {NoSession} \cup SuppliedIds \cup DOMAIN chatSessions,
        message \in UserMessages, principal \in Principals, script \in Scripts :
       ChatRequest(t, sessionId, message, principal, script) /\ UNCHANGED routeVars
  \/ \E t \in Slots : Resume(t) /\ UNCHANGED routeVars

Spec == Init /\ [][Next]_vars

(***************************************************************************)
(* The service specification: calls of callOpenAI by the handlers other    *)
(* than the chat, the clock, and the administration of the cache.          *)
(***************************************************************************)
FreeCallSlot(c) ==
  /\ openaiCalls[c].pc \in {"idle", "done"}
  /\ c = "c1" \/ openaiCalls["c1"].pc \notin {"idle", "done"}

\* The end of callOpenAI.
CallReturned(loc, outcome, result) ==
  [loc EXCEPT !.pc = "done", !.outcome = outcome, !.result = result]

\* A catch block that asks the engine a second time before it gives up.
CatchBlockRetrying(loc, code) ==
  IF loc.engineRequests < 2 THEN [loc EXCEPT !.engineRequests = @ + 1]
  ELSE CallReturned(loc, "fallback", getFallbackResponse(loc.agentType))

\* The catch block of callOpenAI: the error is thrown again for the codes
\* of ThrowsOn, and the fallback is returned for every other failure.
CatchBlock(loc, code) ==
  IF ThrowsOn(code) THEN CallReturned(loc, "thrown", NoResponse)
  ELSE CallReturned(loc, "fallback", getFallbackResponse(loc.agentType))

\* A write that does not look at useCache.
StoreResultAlways(cache, loc, result, enabled) ==
  CacheWrite(cache, loc.cacheKey, result, loc.ttl, loc.fault)

\* if (this.useCache) { await aiCache.set(cacheKey, result, ttl) }
StoreResult(cache, loc, result, enabled) ==
  IF enabled THEN CacheWrite(cache, loc.cacheKey, result, loc.ttl, loc.fault)
  ELSE cache

\* A service that also stores what it returns when the engine has failed.
CacheAfterCallAlways(loc, ev, cache, enabled) ==
  StoreResult(cache, loc,
              IF ev.type = "answer" THEN BuildResult(ev.message, loc.agentType)
              ELSE getFallbackResponse(loc.agentType),
              enabled)

\* The store after callOpenAI has handled what the engine did: the result
\* is stored on the path of the answer only.
CacheAfterCall(loc, ev, cache, enabled) ==
  IF ev.type = "answer"
    THEN StoreResult(cache, loc, BuildResult(ev.message, loc.agentType), enabled)
    ELSE cache

\* callOpenAI up to its request to the reasoning engine, or to its end
\* when the cache answers.
StartCall(c, input) ==
  /\ FreeCallSlot(c)
  /\ nextCall <= MaxCalls
  /\ LET prompt == input.prompt
         agentType == input.agentType
         cacheTTL == input.cacheTTL
         fault == input.fault
         cacheKey == KeyOfPrompt(prompt, agentType)
         read == IF useCache THEN CacheRead(memoryCache, cacheKey, fault)
                 ELSE [kind |-> "miss", value |-> NoResponse]
         loc == [IdleCall EXCEPT
                   !.id = nextCall, !.prompt = prompt,
                   !.agentType = agentType, !.ttl = TTLOf(cacheTTL),
                   !.fault = fault, !.cacheKey = cacheKey,
                   !.startedAt = now,
                   !.entry = IF cacheKey \in DOMAIN stamps THEN stamps[cacheKey]
                             ELSE NoStamp,
                   !.prior = \E k \in DOMAIN stamps :
                               /\ stamps[k].agentType = agentType
                               /\ stamps[k].prompt = prompt]
     IN openaiCalls' = [openaiCalls EXCEPT ![c] =
          CASE read.kind = "hit" ->
                 CallReturned(loc, "cache", read.value)
            [] read.kind = "throw" -> CatchBlock(loc, "")
            [] OTHER ->
                 [loc EXCEPT !.pc = "awaitEngine", !.engineRequests = 1]]
  /\ nextCall' = nextCall + 1
  /\ UNCHANGED <<memoryCache, useCache, now, stamps, admin>>
  /\ UNCHANGED chatVars

\* What may settle the request of a call to the reasoning engine.
CallEvents ==
  {[type |-> "answer", message |-> [role |-> "assistant", content |-> text], code |-> ""] :
     text \in Texts}
  \cup {[type |-> "invalid", message |-> NoMessage, code |-> ""]}
  \cup {[type |-> "error", message |-> NoMessage, code |-> c] : c \in ErrorCodes}

\* callOpenAI from the settled request to its end, for an engine that may
\* do any of `events`.
SettleCallOn(c, events) ==
  /\ openaiCalls[c].pc = "awaitEngine"
  /\ \E ev \in events :
       LET loc == openaiCalls[c]
           result == BuildResult(ev.message, loc.agentType)
           written == ev.type = "answer" /\ useCache /\ loc.fault # "write"
       IN /\ openaiCalls' = [openaiCalls EXCEPT ![c] =
               CASE ev.type = "answer" ->
                      CallReturned([loc EXCEPT !.answer = ev.message], "engine", result)
                 [] OTHER -> CatchBlock(loc, ev.code)]
          /\ memoryCache' = CacheAfterCall(loc, ev, memoryCache, useCache)
          /\ stamps' =
               IF written
                 THEN MapSet(stamps, loc.cacheKey,
                             [at |-> now, ttl |-> loc.ttl, prompt |-> loc.prompt,
                              agentType |-> loc.agentType, result |-> result])
                 ELSE stamps
  /\ UNCHANGED <<useCache, nextCall, now, admin>>
  /\ UNCHANGED chatVars

SettleCall(c) == SettleCallOn(c, CallEvents)

\* Time passes.
Tick ==
  /\ now + TickSeconds <= MaxClock
  /\ now' = now + TickSeconds
  /\ UNCHANGED <<memoryCache, useCache, openaiCalls, nextCall, stamps, admin>>
  /\ UNCHANGED chatVars

\* The router is given CacheController.getStats and CacheController.getKeys
\* as plain functions, so `this` is undefined in them: the first use of a
\* helper through `this` throws a TypeError, which the handler passes to
\* next() and the error handler answers with 500.
ThisIsBound == FALSE

\* CacheController.getKeys: the helper getKeyType is called for each key
\* that was found.
GetKeys(pattern) ==
  /\ LET searchPattern == IF pattern = NoPattern THEN AiPattern ELSE pattern
         found == keys(memoryCache, searchPattern)
     IN admin' = IF found = {} \/ ThisIsBound
                   THEN [NoAdmin EXCEPT !.op = "getKeys", !.arg = pattern,
                                        !.status = 200, !.listed = found,
                                        !.total = Cardinality(found)]
                   ELSE [NoAdmin EXCEPT !.op = "getKeys", !.arg = pattern,
                                        !.status = 500]
  /\ UNCHANGED <<memoryCache, useCache, openaiCalls, nextCall, now, stamps>>
  /\ UNCHANGED chatVars

\* CacheController.getStats with getAIKeyCount
GetStats ==
  /\ LET allKeys == keys(memoryCache, AiPattern)
     IN admin' =
          IF ThisIsBound
            THEN [NoAdmin EXCEPT
                    !.op = "getStats", !.status = 200,
                    !.total = Cardinality(allKeys),
                    !.dashboard =
                      Cardinality({k \in allKeys : IncludesType(k, "dashboard")}),
                    !.opsAssistant =
                      Cardinality({k \in allKeys : IncludesType(k, "opsAssistant")})]
            ELSE [NoAdmin EXCEPT !.op = "getStats", !.status = 500]
  /\ UNCHANGED <<memoryCache, useCache, openaiCalls, nextCall, now, stamps>>
  /\ UNCHANGED chatVars

\* CacheController.deleteKey
DeleteKey(key) ==
  /\ IF ~StartsWithAi(key)
       THEN /\ admin' = [NoAdmin EXCEPT !.op = "deleteKey", !.arg = key, !.status = 400]
            /\ UNCHANGED <<memoryCache, stamps>>
       ELSE /\ admin' = [NoAdmin EXCEPT !.op = "deleteKey", !.arg = key,
                                        !.status = IF key \in DOMAIN memoryCache
                                                     THEN 200 ELSE 404,
                                        !.removed = {key} \cap DOMAIN memoryCache]
            /\ memoryCache' = del(memoryCache, {key})
            /\ stamps' = del(stamps, {key})
  /\ UNCHANGED <<useCache, openaiCalls, nextCall, now>>
  /\ UNCHANGED chatVars

\* CacheController.flushCache with aiCache.flush
FlushCache ==
  /\ LET found == keys(memoryCache, AiPattern)
     IN /\ admin' = [NoAdmin EXCEPT !.op = "flush", !.status = 200, !.removed = found]
        /\ memoryCache' = del(memoryCache, found)
        /\ stamps' = del(stamps, found)
  /\ UNCHANGED <<useCache, openaiCalls, nextCall, now>>
  /\ UNCHANGED chatVars

NextService ==
  \/ \E c \in CallSlots, input \in ServiceCalls : StartCall(c, input) /\ UNCHANGED routeVars
  \/ \E c \in CallSlots : SettleCall(c) /\ UNCHANGED routeVars
  \/ Tick /\ UNCHANGED routeVars
  \/ FlushCache /\ UNCHANGED routeVars

ServiceSpec == Init /\ [][NextService]_vars

\* The administration specification: calls that fill the cache, and the
\* requests of the administrators.
NextAdmin ==
  \/ \E c \in CallSlots, input \in AdminCalls : StartCall(c, input) /\ UNCHANGED routeVars
  \/ \E c \in CallSlots : SettleCall(c) /\ UNCHANGED routeVars
  \/ \E pattern \in Patterns : GetKeys(pattern) /\ UNCHANGED routeVars
  \/ GetStats /\ UNCHANGED routeVars
  \/ \E key \in DOMAIN memoryCache \cup {ForeignKey, AbsentKey} :
       DeleteKey(key) /\ UNCHANGED routeVars
  \/ FlushCache /\ UNCHANGED routeVars

AdminSpec == Init /\ [][NextAdmin]_vars

\* The fallback specification: calls of every kind of agent type, any of
\* which the engine may fail.
NextFallback ==
  \/ \E c \in CallSlots, input \in FallbackCalls : StartCall(c, input) /\ UNCHANGED routeVars
  \/ \E c \in CallSlots : SettleCall(c) /\ UNCHANGED routeVars

FallbackSpec == Init /\ [][NextFallback]_vars

\* The race specification: calls with one agent type and one prompt, two of
\* which may be in flight, and an engine that answers them with either of
\* two texts or fails.
RaceTexts == {"a1", "a2"}
RaceCalls == {CallInput(ArrayPrompt(MessageList), <<"opsAssistant">>, 0, "none")}
RaceEvents ==
  {[type |-> "answer", message |-> [role |-> "assistant", content |-> text], code |-> ""] :
     text \in RaceTexts}
  \cup {[type |-> "error", message |-> NoMessage, code |-> c] : c \in ErrorCodes}

NextRace ==
  \/ \E c \in CallSlots, input \in RaceCalls : StartCall(c, input) /\ UNCHANGED routeVars
  \/ \E c \in CallSlots : SettleCallOn(c, RaceEvents) /\ UNCHANGED routeVars

RaceSpec == Init /\ [][NextRace]_vars

(***************************************************************************)
(* health.controller.js: the detailed health check.  thisArg is the `this` *)
(* of the call: the router of /api/health calls the handler as a plain     *)
(* function ("undefined"); a caller that holds the controller calls it as  *)
(* its method ("controller").                                              *)
(***************************************************************************)
ThisArgs == {"undefined", "controller"}
DiskChecks == {"healthy", "error"}
HealthInput == CallInput(StringPrompt(PlainText), <<"opsAssistant">>, 60, "none")

\* checkOpenAI: healthy unless callOpenAI has thrown.
checkOpenAI(loc) == IF loc.outcome = "thrown" THEN "error" ELSE "healthy"

\* The answer of getDetailedHealth once the checks have settled; the checks
\* of Redis and of the memory never have the status 'error'.
HealthAnswer(h, loc) ==
  LET openai == checkOpenAI(loc)
      hasErrors == openai = "error" \/ h.disk = "error"
  IN [h EXCEPT !.pc = "done", !.outcome = loc.outcome, !.openai = openai,
               !.body = IF hasErrors THEN "degraded" ELSE "healthy",
               !.status = IF hasErrors THEN 503 ELSE 200]

\* The answer of the catch block: the array of the checks is built with
\* this.checkRedis() or this.checkOpenAI(), which throws when `this` is
\* undefined.
HealthUnhealthy(h) == [h EXCEPT !.pc = "done", !.body = "unhealthy", !.status = 503]

\* getDetailedHealth up to the request of checkOpenAI to the engine, or to
\* its answer.
GetDetailedHealth(thisArg, disk, c) ==
  /\ health.pc # "awaiting"
  /\ LET h == [NoHealth EXCEPT !.thisArg = thisArg, !.disk = disk]
     IN IF thisArg = "undefined"
          THEN /\ health' = HealthUnhealthy(h)
               /\ UNCHANGED handlerVars
          ELSE /\ StartCall(c, HealthInput)
               /\ health' = IF openaiCalls'[c].pc = "done"
                               THEN HealthAnswer(h, openaiCalls'[c])
                               ELSE [h EXCEPT !.pc = "awaiting", !.call = c]
  /\ UNCHANGED <<development, gateway, dashboard>>

\* The request of checkOpenAI settles and the handler answers.
HealthSettles ==
  /\ health.pc = "awaiting"
  /\ SettleCallOn(health.call, CallEvents)
  /\ health' = HealthAnswer(health, openaiCalls'[health.call])
  /\ UNCHANGED <<development, gateway, dashboard>>

NextHealth ==
  \/ \E thisArg \in ThisArgs, disk \in DiskChecks, c \in CallSlots :
       GetDetailedHealth(thisArg, disk, c)
  \/ HealthSettles
  \/ FlushCache /\ UNCHANGED routeVars

HealthSpec == Init /\ [][NextHealth]_vars

(***************************************************************************)
(* dashboard.controller.js: generateDashboard.  A JSON object is the       *)
(* record of its members; an array is [array |-> TRUE, items |-> <<..>>],  *)
(* so that a member which is no array can be told from one which is.       *)
(***************************************************************************)
Array(items) == [array |-> TRUE, items |-> items]
NotAnArray == [array |-> FALSE, items |-> <<>>]

\* The object whose JSON text is the content of the dashboard fallback of
\* getFallbackResponse: its one block has a position and no layout.
DashboardFallbackObject ==
  [dashboard |->
     [title |-> "Dashboard par defaut",
      description |-> "Configuration generee en mode degrade",
      layout |-> "grid",
      blocks |-> Array(<<[id |-> "default-metric", type |-> "metric",
                          title |-> "Metriques systeme",
                          position |-> [x |-> 0, y |-> 0, w |-> 6, h |-> 3],
                          config |-> [metric |-> "cpu_usage"],
                          datasource |-> "prometheus"]>>)],
   recommendations |-> <<"Verifiez la configuration des metriques">>,
   explanation |-> "Dashboard genere en mode degrade suite a une erreur API"]

\* JSON.parse(aiResponse.content) on the path of the fallback, where the
\* content is the text of the object above.
ParseFallbackContent(content) ==
  IF content = DashboardFallbackText THEN DashboardFallbackObject ELSE [error |-> content]

\* The objects the engine may answer with.
CpuBlock ==
  [id |-> "cpu-usage-chart", type |-> "line-chart", title |-> "CPU Usage",
   layout |-> [x |-> 0, y |-> 0, w |-> 6, h |-> 4]]
BlockWithoutLayout ==
  [id |-> "memory", type |-> "gauge", title |-> "Memory",
   position |-> [x |-> 6, y |-> 0, w |-> 6, h |-> 4]]
BlockWithoutId ==
  [type |-> "gauge", title |-> "Memory", layout |-> [x |-> 6, y |-> 0, w |-> 6, h |-> 4]]

DashboardConfigs ==
  {[dashboard |-> [title |-> "Infra", blocks |-> Array(<<CpuBlock>>)],
    explanation |-> "ok"],
   [dashboard |-> [title |-> "Empty", blocks |-> Array(<<>>)]],
   [explanation |-> "no dashboard"],
   [dashboard |-> [blocks |-> Array(<<CpuBlock>>)]],
   [dashboard |-> [title |-> "Infra"]],
   [dashboard |-> [title |-> "Infra", blocks |-> NotAnArray]],
   [dashboard |-> [title |-> "Infra", blocks |-> Array(<<CpuBlock, BlockWithoutLayout>>)]],
   [dashboard |-> [title |-> "Infra", blocks |-> Array(<<BlockWithoutId, CpuBlock>>)]]}

\* The contents of the answers of the engine: the JSON texts of these
\* objects, and a text that is no JSON.
DashboardTexts == {JsonStringify(config) : config \in DashboardConfigs} \cup {<<"malformed">>}

\* !obj[name]: the members of the objects of the model are truthy.
Missing(obj, name) == name \notin DOMAIN obj

\* for (const block of dashboard.blocks) if (!block.id || ...) return invalid
InvalidBlock(block) ==
  \/ Missing(block, "id")
  \/ Missing(block, "type")
  \/ Missing(block, "title")
  \/ Missing(block, "layout")

Invalid(error) == [valid |-> FALSE, error |-> error, data |-> <<>>]

\* DashboardController.validateDashboardStructure, for a content that is a
\* string.
validateDashboardStructure(content) ==
  IF ~IsJsonText(content) THEN Invalid("SyntaxError")
  ELSE LET config == JsonParse(content)
       IN IF Missing(config, "dashboard") THEN Invalid("Cle dashboard manquante")
          ELSE IF \/ Missing(config.dashboard, "title")
                  \/ Missing(config.dashboard, "blocks")
                  \/ ~config.dashboard.blocks.array
                 THEN Invalid("Structure dashboard invalide")
          ELSE IF \E i \in DOMAIN config.dashboard.blocks.items :
                    InvalidBlock(config.dashboard.blocks.items[i])
                 THEN Invalid("Bloc invalide")
          ELSE [valid |-> TRUE, error |-> "", data |-> config]

\* enrichDashboard: the metadata are added to a dashboard that has none.
enrichDashboard(dashboardConfig) ==
  IF Missing(dashboardConfig.dashboard, "metadata")
    THEN [dashboardConfig EXCEPT !.dashboard =
            MapSet(@, "metadata", [version |-> "1.0", templateType |-> "custom"])]
    ELSE dashboardConfig

\* aiResponse.fallback
IsFallback(aiResponse) == "fallback" \in DOMAIN aiResponse /\ aiResponse.fallback

DashboardError(d, loc, error) ==
  [d EXCEPT !.pc = "done", !.source = loc.outcome,
            !.response = [kind |-> "error", success |-> FALSE, error |-> error]]

DashboardSuccess(d, loc, dashboardConfig) ==
  [d EXCEPT !.pc = "done", !.source = loc.outcome, !.content = loc.result.content,
            !.response = [kind |-> "success", success |-> TRUE,
                          dashboard |-> enrichDashboard(dashboardConfig).dashboard,
                          metadata |-> [generated |-> TRUE,
                                        cached |-> FALSE]]]

\* generateDashboard once callOpenAI has returned or thrown: the content of
\* a fallback is parsed, any other content is validated.
DashboardAnswer(d, loc) ==
  IF loc.outcome = "thrown" THEN DashboardError(d, loc, "thrown")
  ELSE IF IsFallback(loc.result)
    THEN DashboardSuccess(d, loc, ParseFallbackContent(loc.result.content))
  ELSE LET validation == validateDashboardStructure(loc.result.content)
       IN IF ~validation.valid
            THEN [DashboardError(d, loc, "Configuration dashboard generee invalide")
                    EXCEPT !.content = loc.result.content]
            ELSE DashboardSuccess(d, loc, validation.data)

\* buildDashboardPrompt: a string that quotes the requirements.
Requirements == {"cpu of the auth service", "latency of the api"}
buildDashboardPrompt(requirements) == StringPrompt(<<"text", requirements>>)

\* callOpenAI(prompt, 'dashboard', { ..., cacheTTL: 7200 })
DashboardInput(requirements) ==
  CallInput(buildDashboardPrompt(requirements), <<"dashboard">>, 7200, "none")

\* generateDashboard up to the request of callOpenAI to the engine, or to
\* its answer when the cache has the entry.
GenerateDashboard(requirements, c) ==
  /\ dashboard.pc # "awaiting"
  /\ StartCall(c, DashboardInput(requirements))
  /\ dashboard' = IF openaiCalls'[c].pc = "done"
                    THEN DashboardAnswer(NoDashboard, openaiCalls'[c])
                    ELSE [NoDashboard EXCEPT !.pc = "awaiting", !.call = c]
  /\ UNCHANGED <<development, gateway, health>>

\* What may settle the request of the dashboard call to the engine.
DashboardEvents ==
  {[type |-> "answer", message |-> [role |-> "assistant", content |-> text], code |-> ""] :
     text \in DashboardTexts}
  \cup {[type |-> "invalid", message |-> NoMessage, code |-> ""]}
  \cup {[type |-> "error", message |-> NoMessage, code |-> c] : c \in ErrorCodes}

\* The request settles and the handler answers.
DashboardSettles ==
  /\ dashboard.pc = "awaiting"
  /\ SettleCallOn(dashboard.call, DashboardEvents)
  /\ dashboard' = DashboardAnswer(dashboard, openaiCalls'[dashboard.call])
  /\ UNCHANGED <<development, gateway, health>>

NextDashboard ==
  \/ \E requirements \in Requirements, c \in CallSlots :
       GenerateDashboard(requirements, c)
  \/ DashboardSettles
  \/ FlushCache /\ UNCHANGED routeVars

DashboardSpec == Init /\ [][NextDashboard]_vars

(***************************************************************************)
(* The routes.  The middlewares of a route touch nothing but the request,  *)
(* and the handler starts in the tick in which the last of them calls      *)
(* next(): a routed request is one step.                                   *)
(***************************************************************************)
ChatHeaders == {NoHeader, BasicHeader, Bearer("forged"), Bearer("expired"), Bearer("alice")}
AdminHeaders == {NoHeader, Bearer("forged"), Bearer("alice"), Bearer("root"),
                 Bearer("root-nokeys")}

\* A request that a middleware answered: no handler runs.
Refuse(route, header, input, status) ==
  /\ gateway' = Refused(route, header, input, status)
  /\ UNCHANGED handlerVars
  /\ UNCHANGED <<development, health, dashboard>>

\* router.post('/chat', authMiddlewareToUse, [validators],
\*             handleValidationErrors, OpsAssistantController.chat).
\* The sessionId of a request of the model is absent or a string.
ChatRoute(t, header, sessionId, message, script) ==
  LET auth == ApplyAuth(authMiddlewareToUse(development), header)
  IN IF auth.status # 0 THEN Refuse("chat", header, "", auth.status)
     ELSE IF ~ValidMessage(message) THEN Refuse("chat", header, message, 400)
     ELSE /\ ChatRequest(t, sessionId, message, auth.user.id, script)
          /\ gateway' = Passed("chat", header, message)
          /\ UNCHANGED <<development, health, dashboard>>

\* A route of the cache: adminOnly, the validators of the route, the handler.
AdminOnlyRoute(route, header, input, valid, handler) ==
  IF adminOnly(header).status # 0
    THEN Refuse(route, header, "", adminOnly(header).status)
  ELSE IF ~valid THEN Refuse(route, header, input, 400)
  ELSE /\ handler
       /\ gateway' = Passed(route, header, input)
       /\ UNCHANGED <<development, health, dashboard>>

\* router.get('/stats', ...adminOnly, CacheController.getStats)
StatsRoute(header) == AdminOnlyRoute("stats", header, "", TRUE, GetStats)

\* router.delete('/flush', ...adminOnly, [query('confirm').equals('true')],
\*               handleValidationErrors, CacheController.flushCache)
FlushRoute(header, confirm) ==
  AdminOnlyRoute("flush", header, confirm, confirm = "true", FlushCache)

\* router.get('/keys', ...adminOnly, [validators], handleValidationErrors,
\*            CacheController.getKeys): the patterns of the model are absent
\* or not empty.
KeysRoute(header, pattern) == AdminOnlyRoute("keys", header, "", TRUE, GetKeys(pattern))

\* router.delete('/keys/:key', ...adminOnly, [param('key').notEmpty()],
\*               handleValidationErrors, CacheController.deleteKey)
DeleteKeyRoute(header, key) ==
  AdminOnlyRoute("deleteKey", header, "", TRUE, DeleteKey(key))

\* The requests behind the routes are followed one at a time, with an
\* engine that answers with a text.
Confirms == {"", "true"}
RouteScripts == {0}
RouteSlots == {"t1"}
RouteCallSlots == {"c1"}
RouteCalls == {CallInput(StringPrompt(PlainText), <<"dashboard">>, 0, "none")}

NextChatRoute ==
  \/ \E t \in RouteSlots, header \in ChatHeaders, sessionId \in {NoSession, "s1"},
        message \in RouteMessages, script \in RouteScripts :
       ChatRoute(t, header, sessionId, message, script)
  \/ \E t \in RouteSlots : Resume(t) /\ UNCHANGED routeVars

ChatRouteSpec == RouteInit /\ [][NextChatRoute]_vars

NextCacheRoute ==
  \/ \E c \in RouteCallSlots, input \in RouteCalls : StartCall(c, input) /\ UNCHANGED routeVars
  \/ \E c \in RouteCallSlots : SettleCall(c) /\ UNCHANGED routeVars
  \/ \E header \in AdminHeaders : StatsRoute(header)
  \/ \E header \in AdminHeaders, confirm \in Confirms : FlushRoute(header, confirm)
  \/ \E header \in AdminHeaders, pattern \in Patterns : KeysRoute(header, pattern)
  \/ \E header \in AdminHeaders, key \in DOMAIN memoryCache \cup {ForeignKey, AbsentKey} :
       DeleteKeyRoute(header, key)

CacheRouteSpec == RouteInit /\ [][NextCacheRoute]_vars

(***************************************************************************)
(* Vocabulary of the properties.                                           *)
(***************************************************************************)
Awaiting == {"awaitEngine", "awaitTools"}
Started(t) == turn[t].pc # "idle"
HistoryOf(t) == chatSessions[turn[t].sessionId]
OwnersOf(t) == owners[turn[t].sessionId]

\* The positions of the history of its session that the turn of slot t pushed.
OwnIndexes(t) == {i \in 1..Len(OwnersOf(t)) : OwnersOf(t)[i].req = turn[t].reqId}
LastOwnMessage(t) ==
  HistoryOf(t)[CHOOSE i \in OwnIndexes(t) : \A j \in OwnIndexes(t) : j <= i]

\* The invocations requested by the completion behind a responseMessage.
RequestedCalls(responseMessage) ==
  IF "choices" \in DOMAIN responseMessage
       /\ "tool_calls" \in DOMAIN responseMessage.choices[1].message
    THEN responseMessage.choices[1].message.tool_calls
    ELSE <<>>

\* The turn was answered by the engine alone: no failure, no cache hit.
EngineOnly(t) == turn[t].failure = "" /\ turn[t].cacheHits = 0

Succeeded(t) == turn[t].response.kind = "success"
ContentOf(t) == turn[t].response.message.content

\* The tool messages of the turn of slot t that answer the invocation.
AnswersTo(t, toolCall) ==
  {i \in OwnIndexes(t) :
     /\ HistoryOf(t)[i].role = "tool"
     /\ HistoryOf(t)[i].tool_call_id = toolCall.id
     /\ HistoryOf(t)[i].name = toolCall.function.name}

\* The latest answer to the turn requests tools and the turn has moved on, the
\* round bound not being reached.
RoundDue(t) ==
  /\ Len(RequestedCalls(turn[t].responseMessage)) > 0
  /\ \/ turn[t].pc \in Awaiting
     \/ turn[t].pc = "done" /\ turn[t].executionCount < maxToolCalls

(***************************************************************************)
(* C1: a chat turn performs at most maxToolCalls tool rounds and at most   *)
(* maxToolCalls + 1 calls of the reasoning engine, and every step of a     *)
(* suspended turn either ends the turn or uses up one of these, so that    *)
(* the turn ends after finitely many steps whatever the engine answers.    *)
(***************************************************************************)
C1_Steps(t) == turn[t].engineCalls + turn[t].executionCount

C1_BoundedTurn ==
  /\ [](\A t \in Slots : /\ turn[t].executionCount <= maxToolCalls
                         /\ turn[t].engineCalls <= maxToolCalls + 1)
  /\ [][\A t \in Slots :
          (turn[t].pc \in Awaiting /\ turn'[t] # turn[t])
            => (turn'[t].pc = "done" \/ C1_Steps(t)' > C1_Steps(t))]_vars

\* A turn served by an engine that requests tools in every answer has ended.
C1_Witness ==
  \E t \in Slots : /\ turn[t].pc = "done"
                   /\ turn[t].script = maxToolCalls + 1
                   /\ EngineOnly(t)
                   /\ Len(RequestedCalls(turn[t].responseMessage)) > 0

(***************************************************************************)
(* C2: when the answer of the engine requests tool invocations and the     *)
(* round bound is not reached, the turn has pushed an assistant message    *)
(* carrying these invocations and, before it asks the engine again,        *)
(* exactly one tool message per invocation, tagged with its id and name.   *)
(***************************************************************************)
C2_ToolRoundPerformed ==
  \A t \in Slots :
    RoundDue(t) =>
      LET calls == RequestedCalls(turn[t].responseMessage)
      IN /\ \E i \in OwnIndexes(t) : HistoryOf(t)[i] = AssistantRequest(calls)
         /\ turn[t].pc # "awaitTools" =>
              \A j \in 1..Len(calls) : Cardinality(AnswersTo(t, calls[j])) = 1

(***************************************************************************)
(* C3: a turn whose engine requests tools for k rounds, 1 <= k <=          *)
(* maxToolCalls, and then returns a text ends with a success response      *)
(* whose content is that text; the apology is the content only when the    *)
(* engine still requests tools after the last allowed round.               *)
(***************************************************************************)
C3_FinalAfterToolRounds ==
  \A t \in Slots :
    (turn[t].pc = "done" /\ EngineOnly(t)) =>
      /\ turn[t].script \in 1..maxToolCalls =>
           Succeeded(t) /\ ContentOf(t) \in Texts
      /\ (Succeeded(t) /\ ContentOf(t) = ApologyText) =>
           turn[t].script > maxToolCalls

(***************************************************************************)
(* C4: a turn whose engine requests tools in every answer (the round bound *)
(* is hit) ends with a success response whose content is the apology, and  *)
(* the apology is the one assistant text the turn pushed to the history.   *)
(***************************************************************************)
C4_ExhaustedIsSuccess ==
  \A t \in Slots :
    (turn[t].pc = "done" /\ EngineOnly(t) /\ turn[t].script > maxToolCalls) =>
      /\ Succeeded(t)
      /\ ContentOf(t) = ApologyText
      /\ LastOwnMessage(t) = AssistantMessage(ApologyText)
      /\ Cardinality({i \in OwnIndexes(t) :
                        HistoryOf(t)[i] = AssistantMessage(ApologyText)}) = 1

(***************************************************************************)
(* C5: when the call of the engine fails with a network error or a         *)
(* time-out, the turn ends with success: true, the content is the          *)
(* non-empty fallback text of the chat, it is the last message the turn    *)
(* pushed to the history, and metadata.cached is false.                    *)
(***************************************************************************)
C5_FallbackOnUnavailable ==
  \A t \in Slots :
    turn[t].failure = "ECONNREFUSED" =>
      /\ turn[t].pc = "done"
      /\ Succeeded(t)
      /\ turn[t].response.success
      /\ ContentOf(t) = ChatFallbackText
      /\ ~Falsy(ContentOf(t))
      /\ LastOwnMessage(t) = AssistantMessage(ChatFallbackText)
      /\ ~turn[t].response.metadata.cached

C5_Witness ==
  \E t \in Slots : turn[t].failure = "ECONNREFUSED" /\ turn[t].pc = "done"

(***************************************************************************)
(* C6, as claimed: when the engine reports a rate limit or an exhausted    *)
(* quota, the turn succeeds with the fallback text.                        *)
(***************************************************************************)
QuotaCodes == {"rate_limit_exceeded", "insufficient_quota"}

C7_CallsOf(t) == RequestedCalls(turn[t].responseMessage)

C7_ToolIsolation ==
  \A t \in Slots :
    (RoundDue(t) /\ turn[t].pc # "awaitTools" /\ C7_CallsOf(t) = <<tcNullArgs, tcHealth>>) =>
      /\ \E i \in AnswersTo(t, tcNullArgs) :
           HistoryOf(t)[i] = ToolOutput(tcNullArgs, "ok")
      /\ \E i \in AnswersTo(t, tcHealth) :
           HistoryOf(t)[i].content \in
             {ExecutorOutput("getServiceHealth", o) : o \in ToolOutcomes}
      /\ turn[t].pc = "awaitEngine" =>
           \A c \in {tcNullArgs, tcHealth} :
             \E k \in 1..Len(turn[t].prompt) :
               /\ turn[t].prompt[k].role = "tool"
               /\ turn[t].prompt[k].tool_call_id = c.id

(***************************************************************************)
(* C8: an invocation of an unregistered tool, or one whose arguments are   *)
(* not JSON, gets a tool message with an error text, and the turn goes on  *)
(* to the next call of the engine instead of ending with an error.         *)
(***************************************************************************)
C8_CallsOf(t) == RequestedCalls(turn[t].responseMessage)

C8_BadInvocationsAnswered ==
  \A t \in Slots :
    (RoundDue(t) /\ C8_CallsOf(t) = <<tcUnknown, tcBadJson>>) =>
      /\ turn[t].response.kind # "error"
      /\ \A c \in {tcUnknown, tcBadJson} :
           \E i \in AnswersTo(t, c) : HistoryOf(t)[i] = ToolOutput(c, "ok")

(***************************************************************************)
(* C9: the messages a turn pushes to the history of its session are        *)
(* contiguous: no message of another turn lies between two of them.        *)
(***************************************************************************)
C9_TurnsSerialized ==
  \A s \in DOMAIN owners :
    \A i, k \in 1..Len(owners[s]) :
      (i < k /\ owners[s][i].req = owners[s][k].req) =>
        \A j \in i..k : owners[s][j].req = owners[s][i].req

(***************************************************************************)
(* C10: every message of the history of a session was pushed by a turn     *)
(* addressed to that session, and a suspended turn can resume whatever     *)
(* the state of the other turn.                                            *)
(***************************************************************************)
C10_SessionsIsolated ==
  /\ \A s \in DOMAIN owners :
       \A i \in 1..Len(owners[s]) : owners[s][i].sessionId = s
  /\ \A t \in Slots : turn[t].pc \in Awaiting => ENABLED Resume(t)

\* Two turns addressed to different sessions are suspended at the same time,
\* each with its message in the history of its own session.
C10_Witness ==
  /\ turn["t1"].pc \in Awaiting
  /\ turn["t2"].pc \in Awaiting
  /\ turn["t1"].sessionId # turn["t2"].sessionId
  /\ OwnIndexes("t1") # {}
  /\ OwnIndexes("t2") # {}

(***************************************************************************)
(* C11: the message list a turn sends to the engine in its first call is   *)
(* the system instruction, then the messages the session held when the     *)
(* turn began, in their order, then the new user message; so the second of *)
(* two successive turns sends every message of the first, then its own.    *)
(***************************************************************************)
C11_FirstOwn(t) == CHOOSE i \in OwnIndexes(t) : \A j \in OwnIndexes(t) : i <= j

C11_PromptCarriesHistory ==
  \A t \in Slots :
    (turn[t].pc = "awaitEngine" /\ turn[t].executionCount = 0) =>
      /\ HistoryOf(t)[C11_FirstOwn(t)] = UserMessage(turn[t].message)
      /\ turn[t].prompt =
           <<systemPrompt>> \o SubSeq(HistoryOf(t), 1, C11_FirstOwn(t))

\* The second of two successive turns of a session waits for the engine: the
\* first turn has ended and left its user message and its answer.
C11_Witness ==
  \E t \in Slots :
    /\ turn[t].pc = "awaitEngine"
    /\ turn[t].executionCount = 0
    /\ C11_FirstOwn(t) = 3
    /\ HistoryOf(t)[1].role = "user"
    /\ HistoryOf(t)[2].role = "assistant"
    /\ OwnersOf(t)[1].req = OwnersOf(t)[2].req
    /\ \A u \in Slots : turn[u].pc \in Awaiting => u = t

(***************************************************************************)
(* C12: the history of a session only grows by pushes at its end: in every *)
(* step a session stays, and its earlier history is a prefix of its later  *)
(* one (so its length never decreases).                                    *)
(***************************************************************************)
C12_AppendOnly ==
  [][\A s \in DOMAIN chatSessions :
       /\ s \in DOMAIN chatSessions'
       /\ Len(chatSessions'[s]) >= Len(chatSessions[s])
       /\ SubSeq(chatSessions'[s], 1, Len(chatSessions[s])) = chatSessions[s]]_vars

\* A session holds the messages of two turns.
C12_Witness ==
  \E s \in DOMAIN chatSessions :
    /\ Len(chatSessions[s]) >= 4
    /\ Cardinality({owners[s][i].req : i \in 1..Len(owners[s])}) = 2

(***************************************************************************)
(* Vocabulary of the properties of the service.                            *)
(***************************************************************************)
CallStarted(c) == openaiCalls[c].pc # "idle"
CallDone(c) == openaiCalls[c].pc = "done"
\* The store held an entry under the key of the call when the call began.
HadEntry(c) == openaiCalls[c].entry.ttl > 0
\* The engine answered the request of the call.
Answered(c) == "role" \in DOMAIN openaiCalls[c].answer

(***************************************************************************)
(* C13: an entry stored for ttl seconds is in the store until then, and a  *)
(* read of its key once ttl seconds have elapsed is a miss: no call is     *)
(* served an entry that is older than its time to live.                    *)
(***************************************************************************)
C13_ExpiredEntryMisses ==
  /\ \A k \in DOMAIN stamps :
       now < stamps[k].at + stamps[k].ttl => HasEntry(memoryCache, k)
  /\ \A c \in CallSlots :
       openaiCalls[c].outcome = "cache" =>
         openaiCalls[c].startedAt < openaiCalls[c].entry.at + openaiCalls[c].entry.ttl

(***************************************************************************)
(* C14: the metadata.cached of a successful chat response is true exactly  *)
(* when the answer of the turn was read from the cache.                    *)
(***************************************************************************)
C14_ServedFromCache(t) == turn[t].cacheHits > 0 /\ turn[t].engineCalls = 0

C14_CachedFlag ==
  \A t \in Slots :
    (turn[t].pc = "done" /\ Succeeded(t)) =>
      (turn[t].response.metadata.cached <=> C14_ServedFromCache(t))

(***************************************************************************)
(* C15: a rejected cache read is a miss and a rejected cache write is a    *)
(* no-op: the call whose read was rejected asks the engine, the call the   *)
(* engine answered returns the result built from that answer, and the      *)
(* rejected write leaves the store as it was.                              *)
(***************************************************************************)
C15_CacheIsAdvisory ==
  /\ [](\A c \in CallSlots :
          (CallDone(c) /\ useCache /\ openaiCalls[c].fault # "none") =>
            /\ openaiCalls[c].fault = "read" => openaiCalls[c].engineRequests = 1
            /\ Answered(c) =>
                 /\ openaiCalls[c].outcome = "engine"
                 /\ openaiCalls[c].result =
                      BuildResult(openaiCalls[c].answer, openaiCalls[c].agentType))
  /\ [][\A c \in CallSlots :
          (openaiCalls[c].pc = "awaitEngine" /\ openaiCalls'[c].pc = "done"
             /\ openaiCalls[c].fault = "write") => memoryCache' = memoryCache]_vars

\* A call whose read of an entry was rejected, and a call whose write was
\* rejected, have each returned the result of the engine.
C15_Witness ==
  \E c, d \in CallSlots :
    /\ useCache
    /\ CallDone(c) /\ openaiCalls[c].fault = "read" /\ HadEntry(c)
    /\ openaiCalls[c].outcome = "engine"
    /\ CallDone(d) /\ openaiCalls[d].fault = "write"
    /\ openaiCalls[d].outcome = "engine"

(***************************************************************************)
(* C16: with the cache enabled, a call that ends with the result of the    *)
(* engine leaves it in the store, an entry stays until it is deleted or    *)
(* flushed, and a call made when an entry was stored for its agent type    *)
(* and prompt returns that stored result without a request to the engine.  *)
(***************************************************************************)
C16_RepeatedCallHits ==
  /\ [](\A c \in CallSlots :
          (CallStarted(c) /\ useCache /\ openaiCalls[c].prior
             /\ openaiCalls[c].fault # "read") =>
            /\ CallDone(c)
            /\ openaiCalls[c].outcome = "cache"
            /\ openaiCalls[c].engineRequests = 0
            /\ openaiCalls[c].result = openaiCalls[c].entry.result)
  /\ [][/\ \A c \in CallSlots :
            (openaiCalls[c].pc = "awaitEngine" /\ openaiCalls'[c].outcome = "engine"
               /\ useCache /\ openaiCalls[c].fault # "write") =>
              /\ HasEntry(memoryCache', openaiCalls[c].cacheKey)
              /\ aiCacheGet(memoryCache', openaiCalls[c].cacheKey) = openaiCalls'[c].result
        /\ \A k \in DOMAIN memoryCache :
            k \in DOMAIN memoryCache' \/ admin'.op \in {"flush", "deleteKey"}]_vars

\* A later call with the agent type and the prompt of an earlier one has been
\* served the stored result.
C16_Witness ==
  \E c \in CallSlots :
    /\ openaiCalls[c].outcome = "cache"
    /\ openaiCalls[c].prior
    /\ openaiCalls[c].entry.prompt = openaiCalls[c].prompt
    /\ openaiCalls[c].result.content \in Texts

(***************************************************************************)
(* C17: the administration of the cache lists, counts and removes keys of  *)
(* the 'ai:' namespace only, whatever the pattern or the key of the        *)
(* request; a delete-key request for another key is refused and removes    *)
(* nothing.                                                                *)
(***************************************************************************)
C17_InNamespace(k) == k[1] = "ai"
C17_AiKeys(cache) == {k \in DOMAIN cache : C17_InNamespace(k)}

C20_CallsOf(t) == RequestedCalls(turn[t].responseMessage)

C20_RoundJoined ==
  \A t \in Slots :
    (RoundDue(t) /\ turn[t].pc = "done") =>
      /\ turn[t].engineCalls >= 2
      /\ \A j \in 1..Len(C20_CallsOf(t)) :
           Cardinality(AnswersTo(t, C20_CallsOf(t)[j])) = 1

(***************************************************************************)
(* C21: a call of callOpenAI sends at most one request to the engine: the  *)
(* call that ends with the fallback or with a thrown error has sent        *)
(* exactly one, and a request is only ever sent by a call that begins.     *)
(***************************************************************************)
C21_SingleRequest ==
  /\ [](\A c \in CallSlots :
          /\ openaiCalls[c].engineRequests <= 1
          /\ openaiCalls[c].outcome \in {"fallback", "thrown"} =>
               openaiCalls[c].engineRequests = 1)
  /\ [][\A c \in CallSlots :
          openaiCalls[c].pc = "awaitEngine" =>
            /\ openaiCalls'[c].pc = "done" \/ openaiCalls'[c] = openaiCalls[c]
            /\ openaiCalls'[c].engineRequests = openaiCalls[c].engineRequests]_vars

\* A call has ended with the fallback and another with a thrown error.
C21_Witness ==
  \E c, d \in CallSlots :
    /\ openaiCalls[c].outcome = "fallback"
    /\ openaiCalls[d].outcome = "thrown"

(***************************************************************************)
(* C22: the store gets or changes an entry only in the step in which a     *)
(* call that missed the cache receives the answer of the engine, and then  *)
(* only under the key of that call: the calls that end with a cache hit,   *)
(* with the fallback or with a thrown error leave every entry as it was.   *)
(***************************************************************************)
C22_Touched ==
  {k \in DOMAIN memoryCache' :
     k \notin DOMAIN memoryCache \/ memoryCache'[k] # memoryCache[k]}

C22_OnlyByAnswer ==
  \A k \in C22_Touched :
    \E c \in CallSlots :
      /\ openaiCalls[c].pc = "awaitEngine"
      /\ openaiCalls[c].engineRequests = 1
      /\ openaiCalls[c].cacheKey = k
      /\ openaiCalls'[c].outcome = "engine"
      /\ JsonParse(memoryCache'[k]) = openaiCalls'[c].result

C22_OthersLeaveStore ==
  \A d \in CallSlots :
    (openaiCalls'[d] # openaiCalls[d]
       /\ openaiCalls'[d].outcome \in {"cache", "fallback", "thrown"}) =>
      memoryCache' = memoryCache

C24_DisabledCacheUntouched ==
  /\ [](~useCache =>
          /\ memoryCache = <<>>
          /\ \A c \in CallSlots :
               CallStarted(c) =>
                 /\ openaiCalls[c].engineRequests = 1
                 /\ openaiCalls[c].outcome # "cache")
  /\ [][~useCache => memoryCache' = memoryCache]_vars

\* With the cache disabled, two calls with the same agent type and prompt
\* have each been answered by the engine.
C24_Witness ==
  /\ ~useCache
  /\ \E c, d \in CallSlots :
       /\ c # d
       /\ openaiCalls[c].outcome = "engine" /\ openaiCalls[d].outcome = "engine"
       /\ openaiCalls[c].agentType = openaiCalls[d].agentType
       /\ openaiCalls[c].prompt = openaiCalls[d].prompt
       /\ openaiCalls[c].id < openaiCalls[d].id

(***************************************************************************)
(* C23: a call that ends with the fallback has had one failed request and  *)
(* returns a content that is not empty and is marked as fallback: the      *)
(* entry of its agent type when there is one, else the entry of the chat   *)
(* when the type contains 'chat', else that of the dashboard when it       *)
(* contains 'dashboard', else that of the opsAssistant.                    *)
(***************************************************************************)
C23_Expected(agentType) ==
  IF agentType \in FallbackKeys THEN fallbacks(agentType)
  ELSE IF Includes(agentType, "chat") THEN fallbacks(<<"chat">>)
  ELSE IF Includes(agentType, "dashboard") THEN fallbacks(<<"dashboard">>)
  ELSE fallbacks(<<"opsAssistant">>)

SessionIds == {NoSession} \cup SuppliedIds \cup DOMAIN chatSessions
HistoryBefore(sid) == IF sid \in DOMAIN chatSessions THEN chatSessions[sid] ELSE <<>>
IsPrefix(s, t) == Len(s) <= Len(t) /\ SubSeq(t, 1, Len(s)) = s

\* The step is one of a turn, and it changes no session but the turn's.
OthersUnchanged ==
  \A s \in DOMAIN chatSessions :
    /\ s \in DOMAIN chatSessions'
    /\ chatSessions'[s] # chatSessions[s] =>
         \E t \in Slots : turn'[t] # turn[t] /\ turn'[t].sessionId = s

\* A successful response names the session of its turn, and a turn keeps
\* its session while it is suspended.
EchoesSession ==
  \A t \in Slots : Succeeded(t) => turn[t].response.sessionId = turn[t].sessionId

KeepsSession ==
  \A t \in Slots :
    turn[t].pc \in Awaiting => turn'[t].sessionId = turn[t].sessionId

\* The request of slot t found the history of session sid and pushed its
\* user message after it.
ContinuesSession(t, sid, message) ==
  /\ turn'[t].sessionId = sid
  /\ sid \in DOMAIN chatSessions'
  /\ IsPrefix(Append(HistoryBefore(sid), UserMessage(message)), chatSessions'[sid])

\* The request of slot t got a session that did not exist.
StartsNewSession(t, sessionId, message) ==
  /\ turn'[t].sessionId # sessionId
  /\ turn'[t].sessionId \notin DOMAIN chatSessions
  /\ \A u \in Slots : turn[u].sessionId # turn'[t].sessionId
  /\ chatSessions'[turn'[t].sessionId][1] = UserMessage(message)

(***************************************************************************)
(* C25, as claimed: a chat request that supplies a sessionId works on the  *)
(* history of that session (empty if there was none) and the response      *)
(* names the same id; a request without sessionId gets an id no session    *)
(* had; no other session changes.                                          *)
(***************************************************************************)
C25_Original ==
  /\ []EchoesSession
  /\ [][/\ OthersUnchanged
        /\ KeepsSession
        /\ \A t \in Slots, sessionId \in SessionIds, message \in UserMessages,
              principal \in Principals, script \in Scripts :
             (nextReq' # nextReq /\ ChatRequest(t, sessionId, message, principal, script)) =>
               IF sessionId = NoSession
                 THEN StartsNewSession(t, sessionId, message)
                 ELSE ContinuesSession(t, sessionId, message)]_vars

(***************************************************************************)
(* C25, amended: a chat request that supplies a sessionId other than the   *)
(* empty string works on the history of that session (empty if there was   *)
(* none) and the response names the same id; a request without sessionId,  *)
(* or with the empty string as sessionId, gets an id no session had; no    *)
(* other session changes.                                                  *)
(***************************************************************************)
C25_SessionOfTurn ==
  /\ []EchoesSession
  /\ [][/\ OthersUnchanged
        /\ KeepsSession
        /\ \A t \in Slots, sessionId \in SessionIds, message \in UserMessages,
              principal \in Principals, script \in Scripts :
             (nextReq' # nextReq /\ ChatRequest(t, sessionId, message, principal, script)) =>
               IF sessionId = NoSession \/ sessionId = ""
                 THEN StartsNewSession(t, sessionId, message)
                 ELSE ContinuesSession(t, sessionId, message)]_vars

\* A turn with a generated id has succeeded while the session "s1", which
\* another turn was addressed to, holds messages.
C25_Witness ==
  /\ "s1" \in DOMAIN chatSessions
  /\ Len(chatSessions["s1"]) >= 2
  /\ \E t \in Slots :
       /\ Succeeded(t)
       /\ turn[t].sessionId \notin SuppliedIds
       /\ turn[t].response.sessionId = turn[t].sessionId

(***************************************************************************)
(* C26: a turn that has answered success: true has pushed one assistant    *)
(* text to the session the response names: it is the last message the turn *)
(* pushed, it is not empty, and the message of the response has the role   *)
(* 'assistant' and that text as content.                                   *)
(***************************************************************************)
C26_OwnTexts(t) ==
  {i \in OwnIndexes(t) :
     HistoryOf(t)[i].role = "assistant" /\ "content" \in DOMAIN HistoryOf(t)[i]}

C26_SuccessHasFinalMessage ==
  \A t \in Slots :
    Succeeded(t) =>
      /\ turn[t].pc = "done"
      /\ turn[t].response.sessionId = turn[t].sessionId
      /\ Cardinality(C26_OwnTexts(t)) = 1
      /\ LastOwnMessage(t) = AssistantMessage(ContentOf(t))
      /\ ContentOf(t) # Null /\ ContentOf(t) # ""
      /\ turn[t].response.message.role = "assistant"

\* One turn has succeeded with the text of the engine and another with the
\* fallback text.
C26_Witness ==
  \E t, u \in Slots :
    /\ Succeeded(t) /\ ContentOf(t) \in Texts
    /\ Succeeded(u) /\ ContentOf(u) = ChatFallbackText

(***************************************************************************)
(* C30: the toolsUsedCount of a successful response is the number of       *)
(* assistant messages with tool requests the turn pushed to the history,   *)
(* and it lies between 0 and maxToolCalls.                                 *)
(***************************************************************************)
C30_OwnRequests(t) ==
  {i \in OwnIndexes(t) : "tool_calls" \in DOMAIN HistoryOf(t)[i]}

C30_ToolsUsedCount ==
  \A t \in Slots :
    Succeeded(t) =>
      /\ turn[t].response.metadata.toolsUsedCount = Cardinality(C30_OwnRequests(t))
      /\ turn[t].response.metadata.toolsUsedCount = turn[t].executionCount
      /\ turn[t].response.metadata.toolsUsedCount \in 0..maxToolCalls

\* A turn whose engine asked for tools has succeeded.
C30_Witness ==
  \E t \in Slots :
    /\ Succeeded(t)
    /\ turn[t].script > 0
    /\ turn[t].engineCalls > 0

(***************************************************************************)
(* Vocabulary of the properties of the routes.                             *)
(***************************************************************************)
\* The header carries a Bearer token that jwt.verify accepts.
Verified(header) == header.scheme = "Bearer" /\ header.token \in {"alice", "root"}
IsAdmin(header) == header.scheme = "Bearer" /\ header.token = "root"
\* The authentication of the chat route lets the request through.
LetThrough(header) == Verified(header) \/ (development /\ header = NoHeader)
ChatUntouched == UNCHANGED <<chatSessions, owners, turn, nextReq, uuids, memoryCache>>
\* The step is the answer of a middleware to a request.
RefusedNow == gateway' # gateway /\ ~gateway'.reached
\* The step starts the chat handler, and the step runs a handler of the
\* cache administration or removes entries.
ChatStarted == nextReq' # nextReq
AdminRan == admin' # admin \/ DOMAIN memoryCache \ DOMAIN memoryCache' # {}

(***************************************************************************)
(* C27: a chat request whose message is empty or has more than 2000        *)
(* characters never reaches the handler: the handler only starts for a     *)
(* message of 1 to 2000 characters, the request with another message that  *)
(* the authentication lets through is answered 400, and the request that   *)
(* is answered 400 creates and changes no session and makes no call of the *)
(* engine.                                                                 *)
(***************************************************************************)
C27_Invalid(message) == message = "" \/ Characters(message) > 2000

C27_InvalidMessageRefused ==
  /\ [](gateway.route = "chat" =>
          /\ gateway.reached => ~C27_Invalid(gateway.input)
          /\ gateway.status = 400 <=>
               (LetThrough(gateway.header) /\ C27_Invalid(gateway.input)))
  /\ [][/\ ChatStarted =>
             /\ gateway' = Passed("chat", gateway'.header, gateway'.input)
             /\ \E t \in Slots : turn'[t].reqId = nextReq /\ turn'[t].message = gateway'.input
        /\ RefusedNow => ChatUntouched]_vars

\* With a session in the store, a request with a message of 2001 characters
\* has been answered 400, and a message of 2000 characters is in a history.
C27_Witness ==
  /\ gateway = Refused("chat", Bearer("alice"), TooLongMessage, 400)
  /\ \E s \in DOMAIN chatSessions :
       \E i \in DOMAIN chatSessions[s] :
         chatSessions[s][i] = UserMessage(LongestMessage)

(***************************************************************************)
(* C28: a handler of the cache administration runs only for a request with *)
(* a verified Bearer token whose principal has the role 'admin'; a request *)
(* without a verified token is answered 401, one of a principal without    *)
(* the role 403, and both leave the cache as it was.                       *)
(***************************************************************************)
C28_CacheRoutes == {"stats", "flush", "keys", "deleteKey"}

C28_AdminRoutesGuarded ==
  /\ [](gateway.route \in C28_CacheRoutes =>
          /\ gateway.reached => (Verified(gateway.header) /\ IsAdmin(gateway.header))
          /\ ~Verified(gateway.header) => gateway.status = 401
          /\ (Verified(gateway.header) /\ ~IsAdmin(gateway.header)) =>
               gateway.status = 403)
  /\ [][/\ AdminRan =>
             gateway' = Passed(gateway'.route, gateway'.header, gateway'.input)
        /\ RefusedNow =>
             /\ memoryCache' = memoryCache
             /\ stamps' = stamps
             /\ admin' = admin]_vars

\* With an entry in the store, the flush of a user who is no administrator
\* has been answered 403 and the entry is still there.
C28_Witness ==
  /\ gateway = Refused("flush", Bearer("alice"), "", 403)
  /\ DOMAIN memoryCache # {}

C31_Racing(c, d) ==
  /\ c # d
  /\ openaiCalls[c].pc = "awaitEngine"
  /\ openaiCalls[d].pc \in {"awaitEngine", "done"}
  /\ openaiCalls[d].engineRequests = 1
  /\ openaiCalls[d].cacheKey = openaiCalls[c].cacheKey

C31_LastWriterWins ==
  [][\A c, d \in CallSlots :
       (useCache /\ C31_Racing(c, d) /\ openaiCalls'[c].outcome = "engine") =>
         /\ openaiCalls'[c].pc = "done"
         /\ openaiCalls'[c].result =
              BuildResult(openaiCalls'[c].answer, openaiCalls[c].agentType)
         /\ DOMAIN memoryCache' = DOMAIN memoryCache \cup {openaiCalls[c].cacheKey}
         /\ JsonParse(memoryCache'[openaiCalls[c].cacheKey]) = openaiCalls'[c].result
         /\ \A k \in DOMAIN memoryCache \ {openaiCalls[c].cacheKey} :
              memoryCache'[k] = memoryCache[k]]_vars

\* Two calls that both missed the cache have been answered with different
\* texts, and the entry of their key is the result of the one that began
\* first (it ended last).
C31_Witness ==
  /\ useCache
  /\ \E c, d \in CallSlots :
       /\ c # d
       /\ openaiCalls[c].outcome = "engine" /\ openaiCalls[d].outcome = "engine"
       /\ openaiCalls[c].cacheKey = openaiCalls[d].cacheKey
       /\ ~HadEntry(c) /\ ~HadEntry(d)
       /\ openaiCalls[c].id < openaiCalls[d].id
       /\ openaiCalls[c].result # openaiCalls[d].result
       /\ DOMAIN memoryCache = {openaiCalls[c].cacheKey}
       /\ JsonParse(memoryCache[openaiCalls[c].cacheKey]) = openaiCalls[c].result

(***************************************************************************)
(* C32: a detailed health check made while the engine is out of service    *)
(* (its request to the engine failed) answers 503, and a check that        *)
(* answers 200 with the openai check healthy has had its request answered  *)
(* by the engine.                                                          *)
(***************************************************************************)
C32_EngineFailed == health.outcome \in {"fallback", "thrown"}

C33_ErrorLeavesHistory ==
  \A t \in Slots :
    (turn[t].pc = "done" /\ turn[t].response.kind = "error") => OwnIndexes(t) = {}

(***************************************************************************)
(* C34: every key of the store starts with 'ai:', and the step of a flush  *)
(* leaves the store empty.                                                 *)
(***************************************************************************)
C34_FlushStep ==
  /\ admin'.op = "flush"
  /\ openaiCalls' = openaiCalls
  /\ admin' # admin \/ memoryCache' # memoryCache

C34_OnlyAiKeys ==
  /\ [](\A k \in DOMAIN memoryCache : KeyText(k)[1] = "ai" /\ KeyText(k)[2] = ":")
  /\ [][C34_FlushStep => memoryCache' = <<>>]_vars

\* A flush has removed the entries of two agent types and the store is
\* empty while a call is waiting for the engine.
C34_Witness ==
  /\ admin.op = "flush"
  /\ Cardinality(admin.removed) >= 2
  /\ memoryCache = <<>>
  /\ \E c \in CallSlots : openaiCalls[c].pc = "awaitEngine"

(***************************************************************************)
(* C35: a chat turn that was answered from the store got an entry that a   *)
(* turn of the same user id wrote.                                         *)
(***************************************************************************)
C35_WriterOf(result) ==
  IF Len(result.agentType) = 3 THEN result.agentType[3] ELSE "<none>"

C35_NoCrossUserHit ==
  \A t \in Slots :
    turn[t].cacheHits > 0 => C35_WriterOf(turn[t].responseMessage) = turn[t].userId

\* The store holds the answer to a list of messages under the key of one
\* user, and the turn of another user with the same list has missed and asks
\* the engine.
C35_Witness ==
  \E t \in Slots :
    /\ useCache
    /\ turn[t].pc = "awaitEngine"
    /\ turn[t].cacheHits = 0
    /\ \E k \in DOMAIN memoryCache :
         /\ k[3] = turn[t].cacheKey[3]
         /\ k[2] # turn[t].cacheKey[2]
         /\ C35_WriterOf(aiCacheGet(memoryCache, k)) # turn[t].userId

\* A turn has been answered from the store.
C35_HitWitness ==
  \E t \in Slots : turn[t].pc = "done" /\ turn[t].cacheHits > 0

(***************************************************************************)
(* C36: a delete of a key that does not start with 'ai:' is answered 400   *)
(* and removes nothing; a delete of an absent 'ai:' key is answered 404    *)
(* and leaves the store as it was; a delete of a present 'ai:' key is      *)
(* answered 200 and removes that entry and no other.                       *)
(***************************************************************************)
C36_DeleteStep ==
  /\ admin'.op = "deleteKey"
  /\ openaiCalls' = openaiCalls
  /\ admin' # admin \/ memoryCache' # memoryCache

C36_IsAiKey(key) == KeyText(key)[1] = "ai" /\ KeyText(key)[2] = ":"

C36_DeleteOutcome ==
  LET key == admin'.arg
  IN IF ~C36_IsAiKey(key)
       THEN admin'.status = 400 /\ memoryCache' = memoryCache
     ELSE IF key \notin DOMAIN memoryCache
       THEN admin'.status = 404 /\ memoryCache' = memoryCache
     ELSE /\ admin'.status = 200
          /\ DOMAIN memoryCache' = DOMAIN memoryCache \ {key}
          /\ \A k \in DOMAIN memoryCache' : memoryCache'[k] = memoryCache[k]

C36_DeleteKeyExact == [][C36_DeleteStep => C36_DeleteOutcome]_vars

\* A delete has removed the entry of its key and another entry is still
\* in the store.
C36_Witness ==
  /\ admin.op = "deleteKey"
  /\ admin.status = 200
  /\ admin.removed = {admin.arg}
  /\ admin.arg \notin DOMAIN memoryCache
  /\ memoryCache # <<>>

\* Deletes have been answered 400 and 404 with entries in the store.
C36_Witness400 == admin.op = "deleteKey" /\ admin.status = 400 /\ memoryCache # <<>>
C36_Witness404 == admin.op = "deleteKey" /\ admin.status = 404 /\ memoryCache # <<>>

(***************************************************************************)
(* C37: every dashboard that generateDashboard returns with success: true  *)
(* has a title and an array of blocks each of which has an id, a type, a   *)
(* title and a layout, whether the answer came from the engine, the cache  *)
(* or the fallback; an answer of the engine or of the cache that has not   *)
(* this structure ends in an error.                                        *)
(***************************************************************************)
C37_Structural(d) ==
  /\ {"title", "blocks"} \subseteq DOMAIN d
  /\ d.blocks.array
  /\ \A i \in DOMAIN d.blocks.items :
       {"id", "type", "title", "layout"} \subseteq DOMAIN d.blocks.items[i]

C37_TextIsStructural(content) ==
  /\ content[1] = "json"
  /\ "dashboard" \in DOMAIN content[2]
  /\ C37_Structural(content[2].dashboard)

C37_SuccessIsValid ==
  dashboard.pc = "done" =>
    /\ dashboard.response.kind = "success" => C37_Structural(dashboard.response.dashboard)
    /\ (dashboard.source \in {"engine", "cache"} /\ ~C37_TextIsStructural(dashboard.content))
         => dashboard.response.kind = "error"

\* The part of the claim about the answers of the engine and of the cache.
C37_EngineAndCacheValidated ==
  (dashboard.pc = "done" /\ dashboard.source \in {"engine", "cache"}) =>
    /\ dashboard.response.kind = "success" => C37_Structural(dashboard.response.dashboard)
    /\ ~C37_TextIsStructural(dashboard.content) => dashboard.response.kind = "error"

====
